---------------------------- MODULE Spec2Model ----------------------------
(***************************************************************************)
(* A model of the second (canonical) edition of the Buffer implementation  *)
(* in src/index.js (lines 2489-4962): the search engine and the text       *)
(* codecs.                                                                 *)
(*                                                                         *)
(* Conventions.  A buffer is a sequence of bytes (1-based here, 0-based in *)
(* the source: source index k is element k+1).  A JavaScript string is a   *)
(* sequence of UTF-16 code units (integers 0..65535).  Reading a typed     *)
(* array outside its range, or at a non-integer index, yields `undefined`, *)
(* modelled by the value Undefined.                                        *)
(***************************************************************************)
EXTENDS Integers, Sequences, FiniteSets, TLC

VARIABLES
    pc,          \* control position of the operation in progress
    buffer,      \* `this`: the bytes of the buffer operated on
    val,         \* search: the needle (a byte sequence)
    fromOffset,  \* search: the byteOffset argument as passed by the caller
    dir,         \* search: TRUE = indexOf (forward), FALSE = lastIndexOf
    byteOffset,  \* search: integer part of byteOffset after coercion
    frac,        \* search: byteOffset (and i) carry a fractional part .5
    i,           \* search: outer loop counter (integer part)
    j,           \* search: inner loop counter
    foundIndex,  \* search: forward candidate
    ret,         \* return value of the operation (search: integer part)
    encoding,    \* codec: the encoding name passed by the caller
    string,      \* codec: the current string (argument or result)
    orig,        \* codec: the buffer and the string the run started from
    args,        \* the remaining arguments of the last call
    value,       \* accessors: the number written or read
    accessor,    \* accessors: width, signedness and byte order
    thrown,      \* the error raised by the last call, or "none"
    target,      \* the second buffer of a call (copy target, compare operand)
    view         \* the window of `buffer` that a subarray shares

vars == <<pc, buffer, val, fromOffset, dir, byteOffset, frac, i, j,
          foundIndex, ret, encoding, string, orig, args,
          value, accessor, thrown, target, view>>

searchVars == <<val, fromOffset, dir, byteOffset, frac, i, j, foundIndex>>
codecVars  == <<encoding, string, orig, args>>
accessVars == <<value, accessor, thrown, target, view>>

-----------------------------------------------------------------------------
(* Bounds of the model *)

\* longest buffer searched
MaxBufLen == 3
\* longest needle
MaxValLen == 2
\* longest byte sequence given to a codec
MaxCodecLen == 3
\* longest string given to a codec
MaxStrLen == 4
\* length of the buffer that write() is applied to
DestLen == 3
\* length of the buffer that utf8Write() is applied to
Utf8DestLen == 5
\* length of the buffer that the numeric accessors are applied to
AccessLen == 9

\* Loop counters saturate here.  A JavaScript number stops changing under
\* ++ / -- at 2^53, so a loop that misses its exit value repeats one state
\* for ever; the model reaches that repeating state at IdxCap instead.
IdxCap == MaxBufLen + MaxValLen + 2

\* the value `undefined` of an out-of-range element read
Undefined == -1
\* the value NaN of a failed number conversion
NaN == -2

Min(a, b) == IF a < b THEN a ELSE b
Max(a, b) == IF a > b THEN a ELSE b

\* All sequences over S of length 0..n
SeqsUpTo(S, n) == UNION {[1..k -> S] : k \in 0..n}

-----------------------------------------------------------------------------
(* Search engine: bidirectionalIndexOf and indexOfBuffer *)

encodings == <<"ascii", "utf8", "base64", "base64url", "utf16le", "hex",
               "buffer", "latin1">>

\* encodingsMap[name] = position of name in encodings (0-based)
encodingsMap(name) == (CHOOSE k \in 1..Len(encodings) : encodings[k] = name) - 1

\* `${enc}` of a number: its decimal digits (the map has 8 entries)
NumberToString(n) == <<"0", "1", "2", "3", "4", "5", "6", "7">>[n + 1]

\* String.prototype.toLowerCase on the names that occur as encoding arguments;
\* every other name used here has no upper-case letter
toLowerCase(name) ==
    CASE name = "HEX" -> "hex"
      [] name = "UTF8" -> "utf8"
      [] name = "Utf-8" -> "utf-8"
      [] name = "Latin1" -> "latin1"
      [] name = "UCS2" -> "ucs2"
      [] name = "BASE64" -> "base64"
      [] name = "Binary" -> "binary"
      [] OTHER -> name

\* slowCases that compares the name as given
slowCasesCaseSensitive(enc) ==
    CASE enc \in {"", "utf8", "utf-8"} -> "utf8"
      [] enc \in {"ucs2", "ucs-2", "utf16le", "utf-16le"} -> "utf16le"
      [] enc \in {"latin1", "binary"} -> "latin1"
      [] enc \in {"ascii", "base64", "base64url", "hex"} -> enc
      [] OTHER -> "undefined"

slowCases(enc) ==
    LET lower == toLowerCase(enc)
    IN CASE lower \in {"", "utf8", "utf-8"} -> "utf8"
         [] lower \in {"ucs2", "ucs-2", "utf16le", "utf-16le"} -> "utf16le"
         [] lower \in {"latin1", "binary"} -> "latin1"
         [] lower \in {"ascii", "base64", "base64url", "hex"} -> lower
         [] OTHER -> "undefined"

normalizeEncoding(enc) ==
    IF enc \in {"utf8", "utf-8"} THEN "utf8" ELSE slowCases(enc)

\* the key of encodingOps selected by an encoding name; the switch compares
\* the name as given
getEncodingOps(enc) ==
    CASE enc \in {"utf8", "utf-8"} -> "utf8"
      [] enc \in {"ucs2", "ucs-2", "utf16le", "utf-16le"} -> "utf16le"
      [] enc \in {"binary", "latin1"} -> "latin1"
      [] enc \in {"ascii", "base64", "base64url", "hex"} -> enc
      [] OTHER -> "undefined"

\* indexOfBuffer receives ops.encodingVal, a number; normalizeEncoding
\* stringifies it, so no case of slowCases matches.
indexSizeOf(encodingVal) ==
    IF normalizeEncoding(NumberToString(encodingVal)) = "utf16le" THEN 2 ELSE 1

\* read(buf, i) for indexSize 1: buf[i]; undefined outside the array or at a
\* non-integer index
read(buf, k, fr) ==
    IF fr \/ k < 0 \/ k >= Len(buf) THEN Undefined ELSE buf[k + 1]

\* ++i and --i, saturating
Incr(n) == IF n < IdxCap THEN n + 1 ELSE n
Decr(n) == IF n > -IdxCap THEN n - 1 ELSE n

SearchBytes == {1, 2}

OffsetInputs ==
    {[kind |-> "undefined", n |-> 0, frac |-> FALSE]}
    \cup {[kind |-> "number", n |-> k, frac |-> f] :
             k \in -1..(MaxBufLen + 1), f \in BOOLEAN}

\* the variables of the accessors and of the two-buffer calls, unused
NoAccess ==
    /\ value = 0
    /\ accessor = [kind |-> "none"]
    /\ thrown = "none"
    /\ target = <<>>
    /\ view = [start |-> 0, length |-> 0]

InitSearch ==
    /\ NoAccess
    /\ pc = "idle"
    /\ buffer \in SeqsUpTo(SearchBytes, MaxBufLen)
    /\ val \in SeqsUpTo(SearchBytes, MaxValLen)
    /\ fromOffset \in OffsetInputs
    /\ dir \in BOOLEAN
    /\ byteOffset = 0
    /\ frac = FALSE
    /\ i = 0
    /\ j = 0
    /\ foundIndex = -1
    /\ ret = -1
    /\ encoding = "utf8"
    /\ string = <<>>
    /\ orig = [buffer |-> buffer, string |-> <<>>]
    /\ args = [offset |-> 0, length |-> 0]

\* byteOffset after the clamp to [INT32_MIN, INT32_MAX], unary plus and the
\* NaN default of bidirectionalIndexOf
CoercedOffset(arg, d, len) ==
    IF arg.kind = "undefined"
    THEN [n |-> IF d THEN 0 ELSE len, frac |-> FALSE]
    ELSE IF arg.n > 2147483647 \/ (arg.n = 2147483647 /\ arg.frac)
         THEN [n |-> 2147483647, frac |-> FALSE]
         ELSE IF arg.n < -2147483647 - 1
              THEN [n |-> -2147483647 - 1, frac |-> FALSE]
              ELSE [n |-> arg.n, frac |-> arg.frac]

\* bidirectionalIndexOf up to the call of indexOfBuffer, and indexOfBuffer
\* up to the head of its first loop
bidirectionalIndexOf ==
    /\ pc = "idle"
    /\ LET off == CoercedOffset(fromOffset, dir, Len(buffer))
           bufLen == Len(buffer)
           valLen == Len(val)
           \* backward: if (byteOffset + valLen > bufLen) byteOffset = bufLen - valLen
           over == IF off.frac THEN off.n + valLen >= bufLen
                               ELSE off.n + valLen > bufLen
           start == IF ~dir /\ over
                    THEN [n |-> bufLen - valLen, frac |-> FALSE]
                    ELSE off
       IN /\ byteOffset' = start.n
          /\ frac' = start.frac
          /\ i' = start.n
    /\ foundIndex' = -1
    /\ j' = 0
    /\ pc' = IF indexSizeOf(encodingsMap(getEncodingOps(encoding))) = 1
             THEN (IF dir THEN "scan" ELSE "back")
             ELSE "done"
    /\ UNCHANGED <<buffer, val, fromOffset, dir, ret, codecVars, accessVars>>

\* for (i = byteOffset; i !== bufLen - valLen; ++i)
\*   if (read(buffer, i) === read(val, 0)) { foundIndex = i; break; }
\* followed by `if (foundIndex >= 0)` once the loop is left
ScanExit(k, fr) == ~fr /\ k = Len(buffer) - Len(val)

FwdScan ==
    /\ pc = "scan"
    /\ IF ScanExit(i, frac)
       THEN /\ pc' = "done"
            /\ ret' = -1
            /\ frac' = FALSE
            /\ UNCHANGED <<i, j, foundIndex>>
       ELSE IF read(buffer, i, frac) = read(val, 0, FALSE)
            THEN IF i >= 0
                 THEN /\ foundIndex' = i
                      /\ j' = 1
                      /\ pc' = "verify"
                      /\ UNCHANGED <<i, ret, frac>>
                 ELSE /\ foundIndex' = i
                      /\ pc' = "done"
                      /\ ret' = -1
                      /\ frac' = FALSE
                      /\ UNCHANGED <<i, j>>
            ELSE /\ i' = Incr(i)
                 /\ UNCHANGED <<pc, j, foundIndex, ret, frac>>
    /\ UNCHANGED <<buffer, val, fromOffset, dir, byteOffset, codecVars, accessVars>>

\* for (let j = 1; j !== valLen; ++j)
\*   if (read(buffer, i + j) !== read(val, j)) { foundIndex = -1; break; }
\* if (foundIndex >= 0) return foundIndex * indexSize;  ...  return -1;
FwdVerify ==
    /\ pc = "verify"
    /\ IF j = Len(val)
       THEN /\ pc' = "done"
            /\ ret' = foundIndex
            /\ UNCHANGED <<j, foundIndex, frac>>
       ELSE IF read(buffer, i + j, frac) # read(val, j, FALSE)
            THEN /\ foundIndex' = -1
                 /\ pc' = "done"
                 /\ ret' = -1
                 /\ frac' = FALSE
                 /\ UNCHANGED j
            ELSE /\ j' = Incr(j)
                 /\ UNCHANGED <<pc, foundIndex, ret, frac>>
    /\ UNCHANGED <<buffer, val, fromOffset, dir, byteOffset, i, codecVars, accessVars>>

\* for (i = byteOffset; i !== 0; --i) { let found = true; ...
BwdOuter ==
    /\ pc = "back"
    /\ IF ~frac /\ i = 0
       THEN /\ pc' = "done"
            /\ ret' = -1
            /\ UNCHANGED j
       ELSE /\ j' = 0
            /\ pc' = "match"
            /\ UNCHANGED ret
    /\ UNCHANGED <<buffer, val, fromOffset, dir, byteOffset, frac, i,
                   foundIndex, codecVars, accessVars>>

\*   for (let j = 0; j !== valLen; ++j)
\*     if (read(buffer, i + j) !== read(val, j)) { found = false; break; }
\*   if (found) return i * indexSize; }
BwdMatch ==
    /\ pc = "match"
    /\ IF j = Len(val)
       THEN /\ pc' = "done"
            /\ ret' = i
            /\ UNCHANGED <<i, j>>
       ELSE IF read(buffer, i + j, frac) # read(val, j, FALSE)
            THEN /\ i' = Decr(i)
                 /\ pc' = "back"
                 /\ UNCHANGED <<j, ret>>
            ELSE /\ j' = Incr(j)
                 /\ UNCHANGED <<pc, i, ret>>
    /\ UNCHANGED <<buffer, val, fromOffset, dir, byteOffset, frac,
                   foundIndex, codecVars, accessVars>>

NextSearch ==
    \/ bidirectionalIndexOf
    \/ FwdScan
    \/ FwdVerify
    \/ BwdOuter
    \/ BwdMatch

SpecSearch == InitSearch /\ [][NextSearch]_vars

\* The call runs to completion: no step of it is postponed for ever.
FairSpecSearch == SpecSearch /\ WF_vars(NextSearch)


-----------------------------------------------------------------------------
(* Properties of the search engine *)

\* the needle v occurs contiguously in buf at source index k
Occurs(buf, v, k) ==
    /\ k >= 0
    /\ k + Len(v) <= Len(buf)
    /\ \A t \in 1..Len(v) : buf[k + t] = v[t]

Matches(buf, v) == {k \in 0..Len(buf) : Occurs(buf, v, k)}

SetMin(S) == CHOOSE x \in S : \A y \in S : x <= y
SetMax(S) == CHOOSE x \in S : \A y \in S : x >= y

\* what the contract asks of indexOf / lastIndexOf
LowestFrom(buf, v, from) ==
    LET S == {k \in Matches(buf, v) : k >= from}
    IN IF S = {} THEN -1 ELSE SetMin(S)

HighestUpTo(buf, v, from) ==
    LET S == {k \in Matches(buf, v) : k <= from}
    IN IF S = {} THEN -1 ELSE SetMax(S)

IntegerOffsetInRange ==
    /\ fromOffset.kind = "number"
    /\ ~fromOffset.frac
    /\ fromOffset.n \in 0..Len(buffer)

\* C1: for a non-empty needle and an integer fromOffset in [0, length],
\* indexOf returns the lowest index >= fromOffset where the needle occurs,
\* and -1 exactly when there is none (0 when the needle is the whole
\* buffer, -1 when it is longer than the buffer).
C1_IndexOfLowestMatch ==
    (pc = "done" /\ dir /\ Len(val) > 0 /\ IntegerOffsetInRange)
        => (~frac /\ ret = LowestFrom(buffer, val, fromOffset.n))

\* C2: for a non-empty needle and an integer fromOffset in [0, length],
\* lastIndexOf returns the highest index <= fromOffset (0 included) where
\* the needle occurs, -1 exactly when there is none; with fromOffset
\* omitted the search starts at the end of the buffer.
C2_LastIndexOfHighestMatch ==
    (pc = "done" /\ ~dir /\ Len(val) > 0)
        => /\ IntegerOffsetInRange
              => ret = HighestUpTo(buffer, val, fromOffset.n)
           /\ fromOffset.kind = "undefined"
              => ret = HighestUpTo(buffer, val, Len(buffer))

\* C3: every call of indexOf / lastIndexOf / includes returns: whatever the
\* buffer, the needle and the numeric fromOffset, the search reaches its
\* exit.
C3_SearchTerminates == <>(pc = "done")


-----------------------------------------------------------------------------
(* JavaScript primitives used by the codecs *)

\* a & m for an int32 a and a mask m >= 0 (two's complement)
RECURSIVE BitAnd(_, _)
BitAnd(a, m) ==
    IF m = 0 THEN 0
    ELSE (a % 2) * (m % 2) + 2 * BitAnd(a \div 2, m \div 2)

\* a | b for a, b >= 0
RECURSIVE BitOr(_, _)
BitOr(a, b) ==
    IF a = 0 THEN b
    ELSE IF b = 0 THEN a
    ELSE Max(a % 2, b % 2) + 2 * BitOr(a \div 2, b \div 2)

\* a << n and a >> n; no value of the model reaches 2^31
Shl(a, n) == a * 2^n
Shr(a, n) == a \div 2^n

\* String.fromCharCode(c): the code unit c mod 2^16
fromCharCode(c) == c % 65536

\* buf[k] = v on a Uint8Array: stores v mod 256, ignored outside the array
SetByte(buf, k, v) ==
    IF k >= 0 /\ k < Len(buf) THEN [buf EXCEPT ![k + 1] = v % 256] ELSE buf

\* new FastBuffer(n): n zero bytes
Alloc(n) == [k \in 1..n |-> 0]

\* string.slice(a, b) for 0 <= a <= b
StringSlice(str, a, b) == SubSeq(str, a + 1, Min(b, Len(str)))

-----------------------------------------------------------------------------
(* latin1 and ascii *)

latin1Slice(buf, start, end) ==
    [k \in 1..(end - start) |-> fromCharCode(buf[start + k])]

RECURSIVE latin1WriteLoop(_, _, _, _, _)
latin1WriteLoop(buf, str, offset, length, k) ==
    IF k = length THEN [buf |-> buf, ret |-> length]
    ELSE latin1WriteLoop(SetByte(buf, offset, BitAnd(str[k + 1], 255)),
                         str, offset + 1, length, k + 1)

latin1Write(buf, str, offset, length) ==
    latin1WriteLoop(buf, str, offset,
                    Min(Min(Len(buf) - offset, Len(str)), length), 0)

asciiSlice(buf, start, end) ==
    [k \in 1..(end - start) |-> fromCharCode(BitAnd(buf[start + k], 127))]

RECURSIVE asciiWriteLoop(_, _, _, _, _)
asciiWriteLoop(buf, str, offset, length, k) ==
    IF k = length THEN [buf |-> buf, ret |-> length]
    ELSE asciiWriteLoop(SetByte(buf, offset, BitAnd(str[k + 1], 255)),
                        str, offset + 1, length, k + 1)

asciiWrite(buf, str, offset, length) ==
    asciiWriteLoop(buf, str, offset,
                   Min(Min(Len(buf) - offset, Len(str)), length), 0)

-----------------------------------------------------------------------------
(* hex *)

\* one digit of Number.prototype.toString(16): '0'..'9', 'a'..'f'
HexDigitChar(d) == IF d < 10 THEN 48 + d ELSE 87 + d

\* this[i].toString(16).padStart(2, '0')
ByteToHex(b) ==
    IF b < 16 THEN <<48, HexDigitChar(b)>>
    ELSE <<HexDigitChar(b \div 16), HexDigitChar(b % 16)>>

RECURSIVE hexSliceLoop(_, _, _, _)
hexSliceLoop(buf, k, end, res) ==
    IF k = end THEN res
    ELSE hexSliceLoop(buf, k + 1, end, res \o ByteToHex(buf[k + 1]))

hexSlice(buf, start, end) ==
    hexSliceLoop(buf, start, IF end < start THEN start ELSE end, <<>>)

\* value of one hexadecimal digit character, NaN for any other character
HexDigitValue(c) ==
    IF c >= 48 /\ c <= 57 THEN c - 48
    ELSE IF c >= 97 /\ c <= 102 THEN c - 87
    ELSE IF c >= 65 /\ c <= 70 THEN c - 55
    ELSE NaN

\* parseInt(str, 16) of a string without white space, sign or 0x prefix:
\* the value of its longest prefix of digits, NaN when that is empty
RECURSIVE parseIntDigits(_, _, _)
parseIntDigits(str, k, acc) ==
    IF k > Len(str) \/ HexDigitValue(str[k]) = NaN THEN acc
    ELSE parseIntDigits(str, k + 1, acc * 16 + HexDigitValue(str[k]))

parseInt16(str) ==
    IF str = <<>> \/ HexDigitValue(str[1]) = NaN THEN NaN
    ELSE parseIntDigits(str, 1, 0)

\* const code = parseInt(string.slice(i * 2, i * 2 + 1), 16)
hexPairCode(str, k) == parseInt16(StringSlice(str, k * 2, k * 2 + 1))

RECURSIVE hexWriteLoop(_, _, _, _, _)
hexWriteLoop(buf, str, offset, length, k) ==
    IF k = length THEN [buf |-> buf, ret |-> length]
    ELSE LET code == hexPairCode(str, k)
         IN IF code = NaN THEN [buf |-> buf, ret |-> k]
            ELSE hexWriteLoop(SetByte(buf, offset, code), str, offset + 1,
                              length, k + 1)

hexWrite(buf, str, offset, length) ==
    hexWriteLoop(buf, str, offset,
                 Min(Min(Len(buf) - offset, Len(str) \div 2), length), 0)

-----------------------------------------------------------------------------
(* utf16le / ucs2 *)

\* for (let i = start; i < end - 1; i += 2)
\*   res += String.fromCharCode((this[i + 1] << 8) + this[i]);
\* a plausible slip: the two bytes of a unit read in big-endian order
ucs2UnitBigEndian(lo, hi) == fromCharCode(Shl(lo, 8) + hi)

\* String.fromCharCode((this[i + 1] << 8) + this[i])
ucs2Unit(lo, hi) == fromCharCode(Shl(hi, 8) + lo)

RECURSIVE ucs2SliceLoop(_, _, _, _)
ucs2SliceLoop(buf, k, end, res) ==
    IF ~(k < end - 1) THEN res
    ELSE ucs2SliceLoop(buf, k + 2, end,
             Append(res, ucs2Unit(buf[k + 1], buf[k + 2])))

ucs2Slice(buf, start, end) ==
    ucs2SliceLoop(buf, start, IF end < start THEN start ELSE end, <<>>)

RECURSIVE ucs2WriteLoop(_, _, _, _, _, _)
ucs2WriteLoop(buf, str, offset, length, k, written) ==
    IF k = Len(str) \/ length - 2 < 0 THEN [buf |-> buf, ret |-> written]
    ELSE LET c == str[k + 1]
         IN ucs2WriteLoop(
                SetByte(SetByte(buf, offset, BitAnd(c, 255)),
                        offset + 1, Shr(c, 8)),
                str, offset + 2, length - 2, k + 1, written + 2)

ucs2Write(buf, str, offset, length) ==
    ucs2WriteLoop(buf, str, offset,
                  Min(Min(Len(buf) - offset, Len(str) * 2), length), 0, 0)

-----------------------------------------------------------------------------
(* utf8 *)

RECURSIVE byteLengthUtf8Loop(_, _, _, _)
byteLengthUtf8Loop(str, k, prev, len) ==
    IF k = Len(str) THEN len
    ELSE LET c == str[k + 1]
             n == IF c <= 127 THEN 1
                  ELSE IF c <= 2047 THEN 2
                  ELSE IF prev # NaN /\ BitAnd(prev, 64512) = 55296
                                     /\ BitAnd(c, 64512) = 56320
                       THEN 1
                       ELSE 3
         IN byteLengthUtf8Loop(str, k + 1, c, len + n)

\* prev starts as null, written NaN here
byteLengthUtf8(str) == byteLengthUtf8Loop(str, 0, NaN, 0)

\* the code point decoded at position k of buf[..end), with the number of
\* bytes it takes; code = NaN stands for `code === null`
utf8DecodeAt(buf, k, end) ==
    LET first  == buf[k + 1]
        second == buf[k + 2]
        third  == buf[k + 3]
        fourth == buf[k + 4]
        cont(b) == BitAnd(b, 192) = 128
        none == [code |-> NaN, size |-> 1]
    IN IF first <= 191
       THEN IF k + 1 <= end /\ first < 128
            THEN [code |-> first, size |-> 1] ELSE none
       ELSE IF first <= 223
       THEN IF k + 2 <= end /\ cont(second)
            THEN LET tmp == BitOr(Shl(BitAnd(first, 31), 6), BitAnd(second, 63))
                 IN IF tmp > 127 THEN [code |-> tmp, size |-> 2] ELSE none
            ELSE none
       ELSE IF first <= 239
       THEN IF k + 3 <= end /\ cont(second) /\ cont(third)
            THEN LET tmp == BitOr(BitOr(Shl(BitAnd(first, 15), 12),
                                        Shl(BitAnd(second, 63), 6)),
                                  BitAnd(third, 63))
                 IN IF tmp > 2047 /\ (tmp < 55296 \/ tmp > 57343)
                    THEN [code |-> tmp, size |-> 3] ELSE none
            ELSE none
       ELSE IF k + 4 <= end /\ cont(second) /\ cont(third) /\ cont(fourth)
            THEN LET tmp == BitOr(BitOr(BitOr(Shl(BitAnd(first, 15), 18),
                                              Shl(BitAnd(second, 63), 12)),
                                        Shl(BitAnd(third, 63), 6)),
                                  BitAnd(fourth, 63))
                 IN IF tmp > 65535 /\ tmp < 1114112
                    THEN [code |-> tmp, size |-> 4] ELSE none
            ELSE none

\* if (code > 0xFFFF) {
\*   code -= 0x10000;
\*   res += String.fromCharCode(0xd800 + (((code - 0x10000) >> 10) & 0x3ff));
\*   code = 0xdc00 + (code & 0x3ff);
\* }
\* res += String.fromCharCode(code);
utf8CodeUnits(code) ==
    IF code > 65535
    THEN LET c == code - 65536
         IN <<fromCharCode(55296 + BitAnd(Shr(c - 65536, 10), 1023)),
              fromCharCode(56320 + BitAnd(c, 1023))>>
    ELSE <<fromCharCode(code)>>

\* a decoder that drops the byte after each invalid one
RECURSIVE utf8SliceLoopSkipNext(_, _, _, _)
utf8SliceLoopSkipNext(buf, k, end, res) ==
    IF ~(k < end) THEN res
    ELSE LET d == utf8DecodeAt(buf, k, end)
         IN IF d.code = NaN
            THEN utf8SliceLoopSkipNext(buf, k + 2, end, Append(res, 65533))
            ELSE utf8SliceLoopSkipNext(buf, k + d.size, end,
                                       res \o utf8CodeUnits(d.code))

RECURSIVE utf8SliceLoop(_, _, _, _)
utf8SliceLoop(buf, k, end, res) ==
    IF ~(k < end) THEN res
    ELSE LET d == utf8DecodeAt(buf, k, end)
         IN IF d.code = NaN
            THEN utf8SliceLoop(buf, k + 1, end, Append(res, 65533))
            ELSE utf8SliceLoop(buf, k + d.size, end,
                               res \o utf8CodeUnits(d.code))

utf8Slice(buf, start, end) ==
    utf8SliceLoop(buf, start, IF end < start THEN start ELSE end, <<>>)

\* the four store sequences of utf8Write
utf8Put(buf, offset, bytes) ==
    LET put(b, k) == IF k <= Len(bytes)
                     THEN SetByte(b, offset + k - 1, bytes[k]) ELSE b
    IN put(put(put(put(buf, 1), 2), 3), 4)

utf8Bytes(code) ==
    IF code < 128 THEN <<code>>
    ELSE IF code < 2048
    THEN <<BitOr(Shr(code, 6), 192), BitOr(BitAnd(code, 63), 128)>>
    ELSE IF code < 65536
    THEN <<BitOr(Shr(code, 12), 224),
           BitOr(BitAnd(Shr(code, 6), 63), 128),
           BitOr(BitAnd(code, 63), 128)>>
    ELSE <<BitOr(Shr(code, 18), 240),
           BitOr(BitAnd(Shr(code, 12), 63), 128),
           BitOr(BitAnd(Shr(code, 6), 63), 128),
           BitOr(BitAnd(code, 63), 128)>>

\* the replacement sequence EF BF BD
utf8Replacement == <<239, 191, 189>>

\* One iteration of the loop of utf8Write.  st = [buf, offset, length, lead,
\* written, stop]; lead = 0 stands for null.
utf8WriteStep(st, str, k) ==
    LET code == str[k + 1]
        \* if ((length -= 3) > -1) { EF BF BD; written += 3 }
        repl(s) == IF s.length - 3 > -1
                   THEN [s EXCEPT !.buf = utf8Put(s.buf, s.offset, utf8Replacement),
                                  !.offset = s.offset + 3,
                                  !.length = s.length - 3,
                                  !.written = s.written + 3]
                   ELSE [s EXCEPT !.length = s.length - 3]
        \* lead = null; the four width cases, each with its budget test
        emit(s, c) ==
            LET bytes == utf8Bytes(c)
                n == Len(bytes)
            IN IF s.length - n < 0
               THEN [s EXCEPT !.length = s.length - n, !.lead = 0, !.stop = TRUE]
               ELSE [s EXCEPT !.buf = utf8Put(s.buf, s.offset, bytes),
                              !.offset = s.offset + n,
                              !.length = s.length - n,
                              !.written = s.written + n,
                              !.lead = 0]
    IN IF code > 55295 /\ code < 57344
       THEN IF st.lead = 0
            THEN IF code > 56319 \/ k + 1 = Len(str)
                 THEN repl(st)
                 ELSE [st EXCEPT !.lead = code]
            ELSE IF code < 56320
                 THEN [repl(st) EXCEPT !.lead = code]
                 ELSE emit(st, 65536 + Shl(BitAnd(st.lead, 1023), 10)
                                     + BitAnd(code, 1023))
       ELSE IF st.lead # 0
            THEN emit(repl(st), code)
            ELSE emit(st, code)

RECURSIVE utf8WriteLoop(_, _, _)
utf8WriteLoop(st, str, k) ==
    IF k = Len(str) \/ st.stop THEN [buf |-> st.buf, ret |-> st.written]
    ELSE utf8WriteLoop(utf8WriteStep(st, str, k), str, k + 1)

\* utf8Write without the clamp of length to the room left in the buffer
utf8WriteUnclamped(buf, str, offset, length) ==
    utf8WriteLoop([buf |-> buf, offset |-> offset,
                   length |-> Min(byteLengthUtf8(str), length),
                   lead |-> 0, written |-> 0, stop |-> FALSE],
                  str, 0)

utf8Write(buf, str, offset, length) ==
    utf8WriteLoop([buf |-> buf, offset |-> offset,
                   length |-> Min(Min(Len(buf) - offset, byteLengthUtf8(str)),
                                  length),
                   lead |-> 0, written |-> 0, stop |-> FALSE],
                  str, 0)

-----------------------------------------------------------------------------
(* base64 and base64url *)

kBase64EncMap ==
    <<65, 66, 67, 68, 69, 70, 71, 72, 73, 74, 75, 76, 77,
      78, 79, 80, 81, 82, 83, 84, 85, 86, 87, 88, 89, 90,
      97, 98, 99, 100, 101, 102, 103, 104, 105, 106, 107, 108, 109,
      110, 111, 112, 113, 114, 115, 116, 117, 118, 119, 120, 121, 122,
      48, 49, 50, 51, 52, 53, 54, 55, 56, 57, 43, 47>>

kBase64DecMap ==
    <<0, 0, 0, 0, 0, 0, 0, 0, 0, 0, 0, 0,
      0, 0, 0, 0, 0, 0, 0, 0, 0, 0, 0, 0,
      0, 0, 0, 0, 0, 0, 0, 0, 0, 0, 0, 0,
      0, 0, 0, 0, 0, 0, 0, 62, 0, 0, 0, 63,
      52, 53, 54, 55, 56, 57, 58, 59, 60, 61, 0, 0,
      0, 0, 0, 0, 0, 0, 1, 2, 3, 4, 5, 6,
      7, 8, 9, 10, 11, 12, 13, 14, 15, 16, 17, 18,
      19, 20, 21, 22, 23, 24, 25, 0, 0, 0, 0, 0,
      0, 26, 27, 28, 29, 30, 31, 32, 33, 34, 35, 36,
      37, 38, 39, 40, 41, 42, 43, 44, 45, 46, 47, 48,
      49, 50, 51, 0, 0, 0, 0, 0>>

\* an element of a plain array used as an operand of a bitwise operator:
\* undefined counts as 0
ArrGet(arr, k) == IF k >= 0 /\ k < Len(arr) THEN arr[k + 1] ELSE 0

\* the symbol selected by a 6-bit index
EncSym(x) == kBase64EncMap[x + 1]

\* while (sidx < dataLen - 2) { four symbols of one 3-character group }
RECURSIVE base64EncodeLoop(_, _, _)
base64EncodeLoop(data, sidx, out) ==
    IF ~(sidx < Len(data) - 2) THEN [sidx |-> sidx, out |-> out]
    ELSE LET c0 == data[sidx + 1]
             c1 == data[sidx + 2]
             c2 == data[sidx + 3]
         IN base64EncodeLoop(data, sidx + 3,
                out \o <<EncSym(BitAnd(Shr(c0, 2), 63)),
                         EncSym(BitOr(BitAnd(Shr(c1, 4), 15),
                                      BitAnd(Shl(c0, 4), 63))),
                         EncSym(BitOr(BitAnd(Shr(c2, 6), 3),
                                      BitAnd(Shl(c1, 2), 63))),
                         EncSym(BitAnd(c2, 63))>>)

\* a plausible slip: the second symbol of a one-character final group
\* shifted by 2 instead of 4
base64EncodeTailShift2(data, sidx) ==
    IF ~(sidx < Len(data)) THEN <<>>
    ELSE LET c0 == data[sidx + 1]
         IN IF sidx < Len(data) - 1
            THEN LET c1 == data[sidx + 2]
                 IN <<EncSym(BitAnd(Shr(c0, 2), 63)),
                      EncSym(BitOr(BitAnd(Shr(c1, 4), 15),
                                   BitAnd(Shl(c0, 4), 63))),
                      EncSym(BitAnd(Shl(c1, 2), 63))>>
            ELSE <<EncSym(BitAnd(Shr(c0, 2), 63)),
                   EncSym(BitAnd(Shl(c0, 2), 63))>>

\* the final group of one or two characters
base64EncodeTail(data, sidx) ==
    IF ~(sidx < Len(data)) THEN <<>>
    ELSE LET c0 == data[sidx + 1]
         IN IF sidx < Len(data) - 1
            THEN LET c1 == data[sidx + 2]
                 IN <<EncSym(BitAnd(Shr(c0, 2), 63)),
                      EncSym(BitOr(BitAnd(Shr(c1, 4), 15),
                                   BitAnd(Shl(c0, 4), 63))),
                      EncSym(BitAnd(Shl(c1, 2), 63))>>
            ELSE <<EncSym(BitAnd(Shr(c0, 2), 63)),
                   EncSym(BitAnd(Shl(c0, 4), 63))>>

\* while (out.length % 4 !== 0) out[didx++] = 0x3D;
RECURSIVE base64Pad(_)
base64Pad(out) ==
    IF Len(out) % 4 = 0 THEN out ELSE base64Pad(Append(out, 61))

base64Encode(data) ==
    LET main == IF Len(data) > 1 THEN base64EncodeLoop(data, 0, <<>>)
                ELSE [sidx |-> 0, out |-> <<>>]
    IN base64Pad(main.out \o base64EncodeTail(data, main.sidx))

IsBase64Symbol(ch) ==
    \/ (48 <= ch /\ ch <= 57)
    \/ (65 <= ch /\ ch <= 90)
    \/ (97 <= ch /\ ch <= 122)
    \/ ch = 43
    \/ ch = 47

\* the validating scan of base64Decode: the 6-bit values read, the number
\* of '=' seen, and whether the scan stopped on an error
RECURSIVE base64DecodeScan(_, _, _, _)
base64DecodeScan(data, idx, out, equalsSignCount) ==
    IF ~(idx < Len(data))
    THEN [out |-> out, equalsSignCount |-> equalsSignCount, hadError |-> FALSE]
    ELSE LET ch == data[idx + 1]
         IN IF ch = 61
            THEN IF equalsSignCount + 1 > 2
                 THEN [out |-> out, equalsSignCount |-> equalsSignCount + 1,
                       hadError |-> TRUE]
                 ELSE base64DecodeScan(data, idx + 1, out, equalsSignCount + 1)
            ELSE IF IsBase64Symbol(ch)
            THEN IF equalsSignCount # 0
                 THEN [out |-> out, equalsSignCount |-> equalsSignCount,
                       hadError |-> TRUE]
                 ELSE base64DecodeScan(data, idx + 1,
                          Append(out, kBase64DecMap[ch + 1]), equalsSignCount)
            ELSE IF ch \in {32, 10, 9, 13, 12}
            THEN base64DecodeScan(data, idx + 1, out, equalsSignCount)
            ELSE [out |-> out, equalsSignCount |-> equalsSignCount,
                  hadError |-> TRUE]

base64Byte1(a, b) == BitOr(BitAnd(Shl(a, 2), 255), BitAnd(Shr(b, 4), 3))
base64Byte2(b, c) == BitOr(BitAnd(Shl(b, 4), 255), BitAnd(Shr(c, 2), 15))
\* a plausible slip: the mask of the last value one bit short
base64Byte3Mask31(c, d) == BitOr(BitAnd(Shl(c, 6), 255), BitAnd(d, 31))
base64Byte3(c, d) == BitOr(BitAnd(Shl(c, 6), 255), BitAnd(d, 63))

ArrSet(arr, k, v) == [arr EXCEPT ![k + 1] = v]

\* while (didx < outLength - 2): three bytes from four values, in place
RECURSIVE base64DecodeLoop(_, _, _, _)
base64DecodeLoop(out, sidx, didx, outLength) ==
    IF ~(didx < outLength - 2) THEN [out |-> out, sidx |-> sidx, didx |-> didx]
    ELSE LET o1 == ArrSet(out, didx,
                       base64Byte1(ArrGet(out, sidx), ArrGet(out, sidx + 1)))
             o2 == ArrSet(o1, didx + 1,
                       base64Byte2(ArrGet(o1, sidx + 1), ArrGet(o1, sidx + 2)))
             o3 == ArrSet(o2, didx + 2,
                       base64Byte3(ArrGet(o2, sidx + 2), ArrGet(o2, sidx + 3)))
         IN base64DecodeLoop(o3, sidx + 4, didx + 3, outLength)

\* the final one or two bytes
base64DecodeTail(out, sidx, didx, outLength) ==
    IF ~(didx < outLength) THEN out
    ELSE LET o1 == ArrSet(out, didx,
                       base64Byte1(ArrGet(out, sidx), ArrGet(out, sidx + 1)))
         IN IF didx + 1 < outLength
            THEN ArrSet(o1, didx + 1,
                     base64Byte2(ArrGet(o1, sidx + 1), ArrGet(o1, sidx + 2)))
            ELSE o1

base64Decode(data) ==
    IF Len(data) = 0 THEN <<>>
    ELSE
    LET scan == base64DecodeScan(data, 0, <<>>, 0)
        n == Len(scan.out)
        outLength == n - ((n + 3) \div 4)
    IN IF scan.hadError THEN <<>>
       ELSE IF n = 0 THEN <<>>
       ELSE IF scan.equalsSignCount # 0
               /\ (n + scan.equalsSignCount) % 4 # 0 THEN <<>>
       ELSE IF n % 4 = 1 THEN <<>>
       ELSE IF outLength = 0 THEN <<>>
       ELSE LET main == IF outLength > 1
                        THEN base64DecodeLoop(scan.out, 0, 0, outLength)
                        ELSE [out |-> scan.out, sidx |-> 0, didx |-> 0]
                done == base64DecodeTail(main.out, main.sidx, main.didx,
                                         outLength)
            IN [k \in 1..outLength |-> fromCharCode(done[k])]

\* string.replace(/[^A-Za-z0-9\+\/\=]/g, ''); trim() removes nothing more
base64Strip(str) == SelectSeq(str, LAMBDA ch : IsBase64Symbol(ch) \/ ch = 61)

\* string.replace(/=[\S\s]*?$/, ''): drop everything from the first '='
RECURSIVE base64CutAtEquals(_, _)
base64CutAtEquals(str, k) ==
    IF k > Len(str) THEN str
    ELSE IF str[k] = 61 THEN SubSeq(str, 1, k - 1)
    ELSE base64CutAtEquals(str, k + 1)

base64Clean(str) == base64CutAtEquals(base64Strip(str), 1)

\* latin1Write(decoded, offset): the length argument is not passed on
base64Write(buf, str, offset, length) ==
    LET decoded == base64Decode(base64Clean(str))
    IN latin1Write(buf, decoded, offset, Len(decoded))

ReplaceChar(str, from, to) ==
    [k \in 1..Len(str) |-> IF str[k] = from THEN to ELSE str[k]]

base64urlWrite(buf, str, offset, length) ==
    base64Write(buf, ReplaceChar(ReplaceChar(str, 45, 43), 95, 47),
                offset, length)

\* toString('latin1', start, end) as called by base64Slice
latin1Range(buf, start, end) ==
    LET len == Len(buf)
        st == IF start <= 0 THEN 0 ELSE start
        en == IF end > len THEN len ELSE end
    IN IF st >= len /\ st > 0 THEN <<>>
       ELSE IF en <= st THEN <<>>
       ELSE latin1Slice(buf, st, en)

base64Slice(buf, start, end) ==
    base64Encode(latin1Range(buf, start, IF end < start THEN start ELSE end))

base64urlSlice(buf, start, end) ==
    SelectSeq(ReplaceChar(ReplaceChar(base64Slice(buf, start, end), 43, 45),
                          47, 95),
              LAMBDA ch : ch # 61)

base64ByteLength(str, bytes) ==
    LET charCodeAt(k) == IF k >= 0 /\ k < Len(str) THEN str[k + 1] ELSE NaN
        b1 == IF charCodeAt(bytes - 1) = 61 THEN bytes - 1 ELSE bytes
        b2 == IF b1 > 1 /\ charCodeAt(b1 - 1) = 61 THEN b1 - 1 ELSE b1
    IN (b2 * 3) \div 4

-----------------------------------------------------------------------------
(* The codec table and the operations that dispatch through it *)

opsByteLength(ops, str) ==
    CASE ops = "utf8" -> byteLengthUtf8(str)
      [] ops = "utf16le" -> Len(str) * 2
      [] ops \in {"latin1", "ascii"} -> Len(str)
      [] ops \in {"base64", "base64url"} -> base64ByteLength(str, Len(str))
      [] ops = "hex" -> Len(str) \div 2

opsWrite(ops, buf, str, offset, len) ==
    CASE ops = "utf8" -> utf8Write(buf, str, offset, len)
      [] ops = "utf16le" -> ucs2Write(buf, str, offset, len)
      [] ops = "latin1" -> latin1Write(buf, str, offset, len)
      [] ops = "ascii" -> asciiWrite(buf, str, offset, len)
      [] ops = "base64" -> base64Write(buf, str, offset, len)
      [] ops = "base64url" -> base64urlWrite(buf, str, offset, len)
      [] ops = "hex" -> hexWrite(buf, str, offset, len)

opsSlice(ops, buf, start, end) ==
    CASE ops = "utf8" -> utf8Slice(buf, start, end)
      [] ops = "utf16le" -> ucs2Slice(buf, start, end)
      [] ops = "latin1" -> latin1Slice(buf, start, end)
      [] ops = "ascii" -> asciiSlice(buf, start, end)
      [] ops = "base64" -> base64Slice(buf, start, end)
      [] ops = "base64url" -> base64urlSlice(buf, start, end)
      [] ops = "hex" -> hexSlice(buf, start, end)

\* new FastBuffer(length), ops.write, and the shorter view when fewer bytes
\* were written
fromStringFast(str, ops) ==
    LET length == opsByteLength(ops, str)
        w == opsWrite(ops, Alloc(length), str, 0, length)
    IN IF w.ret # length THEN SubSeq(w.buf, 1, w.ret) ELSE w.buf

\* Buffer.from(string, encoding) with a recognized encoding name
fromString(str, enc) ==
    IF Len(str) = 0 THEN <<>> ELSE fromStringFast(str, getEncodingOps(enc))

\* buf.toString(encoding): start and end omitted
toString(buf, enc) ==
    IF Len(buf) <= 0 THEN <<>>
    ELSE opsSlice(getEncodingOps(enc), buf, 0, Len(buf))

\* buf.write(string, offset, length, encoding) with 0 <= offset, length <=
\* buf.length (validateOffset passes)
write(buf, str, offset, length, enc) ==
    LET remaining == Len(buf) - offset
        len == IF length > remaining THEN remaining ELSE length
    IN opsWrite(getEncodingOps(enc), buf, str, offset, len)

-----------------------------------------------------------------------------
(* The codecs as a state machine: a run starts from a buffer or from a     *)
(* string and applies toString, Buffer.from and write.                     *)

\* the buffer a write is applied to: DestLen bytes 0xEE
DestBuf == [k \in 1..DestLen |-> 238]

\* A run starts from a byte sequence (to be decoded to text) or from a
\* string (to be encoded, or written into a buffer).
InitCodec(encs, bufs, strs) ==
    /\ NoAccess
    /\ pc = "idle"
    /\ encoding \in encs
    /\ buffer \in bufs
    /\ string \in strs
    /\ orig = [buffer |-> buffer, string |-> string]
    /\ args = [offset |-> 0, length |-> 0]
    /\ ret = 0
    /\ val = <<>>
    /\ fromOffset = [kind |-> "undefined", n |-> 0, frac |-> FALSE]
    /\ dir = TRUE
    /\ byteOffset = 0
    /\ frac = FALSE
    /\ i = 0
    /\ j = 0
    /\ foundIndex = -1

\* string = buffer.toString(encoding)
DoToString ==
    /\ pc \in {"idle", "buf"}
    /\ string' = toString(buffer, encoding)
    /\ pc' = IF pc = "idle" THEN "str" ELSE "buf-str"
    /\ UNCHANGED <<buffer, ret, encoding, orig, args, searchVars, accessVars>>

\* buffer = Buffer.from(string, encoding)
DoBufferFrom ==
    /\ pc \in {"idle", "str"}
    /\ buffer' = fromString(string, encoding)
    /\ pc' = IF pc = "idle" THEN "buf" ELSE "str-buf"
    /\ UNCHANGED <<string, ret, encoding, orig, args, searchVars, accessVars>>

\* ret = buffer.write(string, offset, length, encoding)
DoWrite ==
    /\ pc = "idle"
    /\ \E offset \in 0..Len(buffer), length \in 0..Len(buffer) :
          LET w == write(buffer, string, offset, length, encoding)
          IN /\ buffer' = w.buf
             /\ ret' = w.ret
             /\ args' = [offset |-> offset, length |-> length]
    /\ pc' = "written"
    /\ UNCHANGED <<string, encoding, orig, searchVars, accessVars>>

\* decode and encode: toString and Buffer.from, in either order
NextCodec ==
    \/ DoToString
    \/ DoBufferFrom

\* write into an existing buffer
NextWrite == DoWrite

\* hex
HexBytes == {0, 9, 10, 16, 171, 255}
\* '0' 'f' 'A' 'g' 'z'
HexChars == {48, 102, 65, 103, 122}

InitHex ==
    \/ InitCodec({"hex"}, SeqsUpTo(HexBytes, MaxCodecLen), {<<>>})
    \/ InitCodec({"hex"}, {<<>>}, SeqsUpTo(HexChars, MaxStrLen))
SpecHex == InitHex /\ [][NextCodec]_vars

InitHexWrite == InitCodec({"hex"}, {DestBuf}, SeqsUpTo(HexChars, MaxStrLen))
SpecHexWrite == InitHexWrite /\ [][NextWrite]_vars

\* utf8: boundary code units of each width, high and low surrogates
Utf8Units == {65, 127, 128, 2047, 2048, 8364, 65535,
              55296, 56319, 56320, 57343}
Utf8Bytes == {65, 128, 194, 226, 172, 240, 159}

InitUtf8 ==
    \/ InitCodec({"utf8"}, SeqsUpTo(Utf8Bytes, MaxCodecLen), {<<>>})
    \/ InitCodec({"utf8"}, {<<>>}, SeqsUpTo(Utf8Units, MaxCodecLen))
SpecUtf8 == InitUtf8 /\ [][NextCodec]_vars

\* utf8 decoding of arbitrary bytes: ASCII, continuation bytes 80 and A0,
\* the leads C2, ED (ED A0 80 encodes the surrogate D800) and F0
\* (F0 A0 80 80 is U+20000, F0 80 80 80 is overlong), and the byte FF
Utf8DecodeBytes == {65, 128, 160, 194, 237, 240, 255}

InitUtf8Decode ==
    InitCodec({"utf8"}, SeqsUpTo(Utf8DecodeBytes, MaxCodecLen + 1), {<<>>})
SpecUtf8Decode == InitUtf8Decode /\ [][NextCodec]_vars

\* base64 / base64url
Base64Bytes == {0, 102, 111, 251, 255}
\* 'Z' 'g' 'm' '8' '=' '*'
Base64Chars == {90, 103, 109, 56, 61, 42}

InitBase64 ==
    \/ InitCodec({"base64", "base64url"},
                 SeqsUpTo(Base64Bytes, MaxCodecLen + 1), {<<>>})
    \/ InitCodec({"base64", "base64url"}, {<<>>},
                 SeqsUpTo(Base64Chars, MaxStrLen))
SpecBase64 == InitBase64 /\ [][NextCodec]_vars

InitBase64Write ==
    InitCodec({"base64", "base64url"}, {DestBuf},
              SeqsUpTo(Base64Chars, MaxStrLen))
SpecBase64Write == InitBase64Write /\ [][NextWrite]_vars

\* utf16le
Ucs2Bytes == {0, 65, 216, 220, 255}
Ucs2Units == {65, 255, 256, 55357, 65535}

InitUcs2 ==
    \/ InitCodec({"utf16le", "ucs2"},
                 SeqsUpTo(Ucs2Bytes, MaxCodecLen + 1), {<<>>})
    \/ InitCodec({"utf16le", "ucs2"}, {<<>>},
                 SeqsUpTo(Ucs2Units, MaxCodecLen))
SpecUcs2 == InitUcs2 /\ [][NextCodec]_vars

\* ascii and latin1: bytes on both sides of 0x7F, code units on both sides
\* of 0x7F and of 0xFF
AsciiBytes == {0, 65, 127, 128, 233, 255}
AsciiUnits == {65, 127, 128, 233, 255, 256, 8364}

InitAscii ==
    \/ InitCodec({"ascii", "latin1", "binary"},
                 SeqsUpTo(AsciiBytes, MaxCodecLen), {<<>>})
    \/ InitCodec({"ascii", "latin1", "binary"}, {<<>>},
                 SeqsUpTo(AsciiUnits, MaxCodecLen))
SpecAscii == InitAscii /\ [][NextCodec]_vars

-----------------------------------------------------------------------------
(* Properties of the codecs *)

IsHexDigit(c) == HexDigitValue(c) # NaN

\* C4: hex round trip: decoding the hex text of a byte sequence B gives a
\* buffer equal to B.
C4_HexRoundTrip ==
    (pc = "str-buf" /\ encoding = "hex") => buffer = orig.buffer

IsHighSurrogate(c) == c >= 55296 /\ c <= 56319
IsLowSurrogate(c) == c >= 56320 /\ c <= 57343

\* no lone surrogate: every high surrogate is followed by a low one and
\* every low surrogate follows a high one
WellFormed(str) ==
    \A k \in 1..Len(str) :
        /\ IsHighSurrogate(str[k])
              => (k < Len(str) /\ IsLowSurrogate(str[k + 1]))
        /\ IsLowSurrogate(str[k])
              => (k > 1 /\ IsHighSurrogate(str[k - 1]))

\* C5: utf8 round trip: for a well-formed string s, surrogate pairs
\* included, decoding the UTF-8 bytes of s returns s unit for unit.
C5_Utf8RoundTrip ==
    (pc = "buf-str" /\ encoding = "utf8" /\ WellFormed(orig.string))
        => string = orig.string

\* C6: base64 and base64url round trip: decoding the base64 text, or the
\* unpadded base64url text, of any byte sequence B gives a buffer equal to B.
C6_Base64RoundTrip ==
    (pc = "str-buf" /\ encoding \in {"base64", "base64url"})
        => buffer = orig.buffer

\* a round trip of four bytes through base64url text that uses both of the
\* substituted symbols '-' and '_'
C6_Witness ==
    /\ pc = "str-buf"
    /\ encoding = "base64url"
    /\ Len(orig.buffer) = 4
    /\ \E k \in 1..Len(string) : string[k] = 45
    /\ \E k \in 1..Len(string) : string[k] = 95
    /\ buffer = orig.buffer

\* C7 as stated: the utf16le round trip returns B for byte sequences of
\* even and of odd length.
C7_Ucs2RoundTripAnyLength ==
    (pc = "str-buf" /\ encoding \in {"utf16le", "ucs2"})
        => buffer = orig.buffer

\* C7 amended: the utf16le round trip returns B when the length of B is
\* even, and B without its last byte when it is odd.
C7_Ucs2RoundTripEvenPrefix ==
    (pc = "str-buf" /\ encoding \in {"utf16le", "ucs2"})
        => buffer = SubSeq(orig.buffer, 1, 2 * (Len(orig.buffer) \div 2))

\* a round trip of three bytes: the two-byte unit survives, the odd byte
\* is gone
C7_Witness ==
    /\ pc = "str-buf"
    /\ encoding = "utf16le"
    /\ Len(orig.buffer) = 3
    /\ orig.buffer[1] # orig.buffer[2]
    /\ Len(buffer) = 2

\* RFC 4648: the symbol of a 6-bit value
Rfc4648Symbol(v) ==
    IF v < 26 THEN 65 + v
    ELSE IF v < 52 THEN 97 + (v - 26)
    ELSE IF v < 62 THEN 48 + (v - 52)
    ELSE IF v = 62 THEN 43
    ELSE 47

\* RFC 4648: a 24-bit group as four base-64 digits, most significant first
Rfc4648Group(b0, b1, b2) ==
    LET n == b0 * 65536 + b1 * 256 + b2
    IN <<Rfc4648Symbol(n \div 262144), Rfc4648Symbol((n \div 4096) % 64),
         Rfc4648Symbol((n \div 64) % 64), Rfc4648Symbol(n % 64)>>

RECURSIVE Rfc4648(_)
Rfc4648(B) ==
    IF Len(B) = 0 THEN <<>>
    ELSE IF Len(B) = 1
    THEN SubSeq(Rfc4648Group(B[1], 0, 0), 1, 2) \o <<61, 61>>
    ELSE IF Len(B) = 2
    THEN SubSeq(Rfc4648Group(B[1], B[2], 0), 1, 3) \o <<61>>
    ELSE Rfc4648Group(B[1], B[2], B[3]) \o Rfc4648(SubSeq(B, 4, Len(B)))

\* the base64 text with '+' and '/' replaced by '-' and '_', padding removed
Rfc4648Url(B) ==
    LET t == Rfc4648(B)
        u == [k \in 1..Len(t) |->
                 IF t[k] = 43 THEN 45 ELSE IF t[k] = 47 THEN 95 ELSE t[k]]
    IN SelectSeq(u, LAMBDA c : c # 61)

\* C8: the base64 text of n bytes is the RFC 4648 encoding, 4*ceil(n/3)
\* characters long; the base64url text is the same with '-' and '_' for
\* '+' and '/' and without the padding.
C8_Base64EncodeIsRfc4648 ==
    /\ (pc = "str" /\ encoding = "base64")
          => /\ string = Rfc4648(orig.buffer)
             /\ Len(string) = 4 * ((Len(orig.buffer) + 2) \div 3)
    /\ (pc = "str" /\ encoding = "base64url")
          => string = Rfc4648Url(orig.buffer)

\* the base64 text of a sequence whose last group has one byte: two symbols
\* and '=='
C8_Witness ==
    /\ pc = "str"
    /\ encoding = "base64"
    /\ Len(orig.buffer) = 4
    /\ Len(string) = 8
    /\ string[7] = 61
    /\ string[6] # 65

PadCount(str) == Cardinality({k \in 1..Len(str) : str[k] = 61})
DataCount(str) == Cardinality({k \in 1..Len(str) : IsBase64Symbol(str[k])})

\* malformed in one of the ways the contract lists
Base64Malformed(str) ==
    \/ \E k \in 1..Len(str) : ~IsBase64Symbol(str[k]) /\ str[k] # 61
    \/ PadCount(str) > 2
    \/ \E k \in 1..Len(str) : \E l \in (k + 1)..Len(str) :
          str[k] = 61 /\ IsBase64Symbol(str[l])
    \/ DataCount(str) % 4 = 1
    \/ (PadCount(str) > 0 /\ (DataCount(str) + PadCount(str)) % 4 # 0)

\* C9: writing a malformed base64 string writes nothing and returns 0;
\* "Zg==" and "Zm8=" decode to "f" and "fo".
C9_MalformedBase64WritesNothing ==
    (pc = "written" /\ encoding = "base64" /\ args.offset = 0
                    /\ args.length = Len(orig.buffer))
        => /\ Base64Malformed(string)
              => (ret = 0 /\ buffer = orig.buffer)
           /\ string = <<90, 103, 61, 61>>
              => (ret = 1 /\ buffer[1] = 102)
           /\ string = <<90, 109, 56, 61>>
              => (ret = 2 /\ buffer[1] = 102 /\ buffer[2] = 111)

\* the number of leading pairs of str that are two hexadecimal digits
RECURSIVE ValidHexPairs(_, _)
ValidHexPairs(str, k) ==
    IF 2 * k + 2 <= Len(str) /\ IsHexDigit(str[2 * k + 1])
                             /\ IsHexDigit(str[2 * k + 2])
    THEN ValidHexPairs(str, k + 1)
    ELSE k

\* C10: hex decode stops at the first pair that is not two hexadecimal
\* digits, whichever of its characters is invalid: it returns the number of
\* bytes written before that pair and leaves every later byte unchanged.
C10_HexWriteStopsAtBadPair ==
    (pc = "written" /\ encoding = "hex")
        => LET budget == Min(Min(Len(orig.buffer) - args.offset,
                                 Len(string) \div 2), args.length)
               n == Min(ValidHexPairs(string, 0), budget)
           IN /\ ret = n
              /\ \A k \in 1..Len(buffer) :
                    (k <= args.offset \/ k > args.offset + n)
                        => buffer[k] = orig.buffer[k]

(***************************************************************************)
(* UTF-8 decoding of malformed input                                       *)
(***************************************************************************)
InRange(b, lo, hi) == lo <= b /\ b <= hi

\* the length of the well-formed UTF-8 sequence (Unicode table 3-7) that
\* starts at element k of B, or 0 when none does
WellFormedLen(B, k) ==
    LET n == Len(B)
        b1 == B[k]
        b2 == B[k + 1]
        b3 == B[k + 2]
        b4 == B[k + 3]
        c(b) == InRange(b, 128, 191)
    IN IF b1 <= 127 THEN 1
       ELSE IF InRange(b1, 194, 223) /\ k + 1 <= n /\ c(b2) THEN 2
       ELSE IF k + 2 <= n /\ c(b3) /\
               \/ b1 = 224 /\ InRange(b2, 160, 191)
               \/ InRange(b1, 225, 236) /\ c(b2)
               \/ b1 = 237 /\ InRange(b2, 128, 159)
               \/ InRange(b1, 238, 239) /\ c(b2)
            THEN 3
       ELSE IF k + 3 <= n /\ c(b3) /\ c(b4) /\
               \/ b1 = 240 /\ InRange(b2, 144, 191)
               \/ InRange(b1, 241, 243) /\ c(b2)
               \/ b1 = 244 /\ InRange(b2, 128, 143)
            THEN 4
       ELSE 0

\* for each code unit of the expected text, whether it is U+FFFD: one unit
\* per invalid byte, one per well-formed sequence up to U+FFFF, two per
\* well-formed 4-byte sequence
RECURSIVE ExpectedReplacements(_, _)
ExpectedReplacements(B, k) ==
    IF k > Len(B) THEN <<>>
    ELSE LET n == WellFormedLen(B, k)
         IN IF n = 0 THEN <<TRUE>> \o ExpectedReplacements(B, k + 1)
            ELSE IF n = 4
            THEN <<FALSE, FALSE>> \o ExpectedReplacements(B, k + 4)
            ELSE <<n = 3 /\ B[k] = 239 /\ B[k + 1] = 191 /\ B[k + 2] = 189>>
                 \o ExpectedReplacements(B, k + n)

Replacements(str) == [k \in 1..Len(str) |-> str[k] = 65533]

\* C11: decoding bytes as utf8 gives one U+FFFD for every byte that does
\* not start a well-formed sequence and resumes at the next byte, so the
\* text has a U+FFFD exactly where the byte-by-byte reference has one (and
\* k invalid bytes give k replacement characters).
C11_Utf8DecodeOneReplacementPerByte ==
    (pc = "str" /\ encoding = "utf8") =>
        Replacements(string) = ExpectedReplacements(orig.buffer, 1)

\* the three bytes ED A0 80 of an encoded surrogate, followed by an ASCII
\* byte, decode to three replacement characters and the letter
C11_Witness ==
    /\ pc = "str"
    /\ orig.buffer = <<237, 160, 128, 65>>
    /\ string = <<65533, 65533, 65533, 65>>

(***************************************************************************)
(* UTF-8 encoding of surrogates                                            *)
(***************************************************************************)
\* the UTF-8 bytes of the code point c, by division
Utf8Of(c) ==
    IF c < 128 THEN <<c>>
    ELSE IF c < 2048 THEN <<192 + (c \div 64), 128 + (c % 64)>>
    ELSE IF c < 65536
    THEN <<224 + (c \div 4096), 128 + ((c \div 64) % 64), 128 + (c % 64)>>
    ELSE <<240 + (c \div 262144), 128 + ((c \div 4096) % 64),
           128 + ((c \div 64) % 64), 128 + (c % 64)>>

\* the expected encoding of str from unit k on: a high surrogate followed
\* by a low one is one 4-byte sequence, every other surrogate is EF BF BD
RECURSIVE ExpectedUtf8(_, _)
ExpectedUtf8(str, k) ==
    IF k > Len(str) THEN <<>>
    ELSE LET u == str[k]
         IN IF IsHighSurrogate(u) /\ k < Len(str) /\ IsLowSurrogate(str[k + 1])
            THEN Utf8Of(65536 + (u - 55296) * 1024 + (str[k + 1] - 56320))
                 \o ExpectedUtf8(str, k + 2)
            ELSE IF IsHighSurrogate(u) \/ IsLowSurrogate(u)
            THEN <<239, 191, 189>> \o ExpectedUtf8(str, k + 1)
            ELSE Utf8Of(u) \o ExpectedUtf8(str, k + 1)

\* C12: encoding a string as utf8 into a buffer of its full byte length
\* emits EF BF BD once for every unpaired surrogate (a low one, a high one
\* at the end of the string, a high one followed by anything but a low
\* one) and one 4-byte sequence for every high+low pair.
C12_Utf8EncodeSurrogates ==
    (pc = "buf" /\ encoding = "utf8") =>
        buffer = ExpectedUtf8(orig.string, 1)

(***************************************************************************)
(* ascii and latin1                                                        *)
(***************************************************************************)
\* the width of the mask the encoding is said to apply
MaskModulus(enc) == IF enc = "ascii" THEN 128 ELSE 256

\* C13: ascii decodes each byte b to the character b mod 128 and encodes
\* each character c as the byte c mod 128; latin1 decodes b to b and
\* encodes c as c mod 256; one byte per character in both directions.
C13_AsciiLatin1Masks ==
    /\ (pc = "str" /\ encoding \in {"ascii", "latin1", "binary"}) =>
          /\ Len(string) = Len(orig.buffer)
          /\ \A k \in 1..Len(string) :
                string[k] = orig.buffer[k] % MaskModulus(encoding)
    /\ (pc = "buf" /\ encoding \in {"ascii", "latin1", "binary"}) =>
          /\ Len(buffer) = Len(orig.string)
          /\ \A k \in 1..Len(buffer) :
                buffer[k] = orig.string[k] % MaskModulus(encoding)

-----------------------------------------------------------------------------
(***************************************************************************)
(* Numbers wider than the integers of the model checker.  A JavaScript     *)
(* number or BigInt v is held as [t, d] with d eight bytes, least          *)
(* significant first, and v = t * 2^64 + d[1] + d[2] * 2^8 + ... +         *)
(* d[8] * 2^56.  Every integer has exactly one such form, so equality of   *)
(* forms is equality of numbers; a negative number has t < 0.              *)
(***************************************************************************)
NumOfInt(n) ==
    [t |-> IF n < 0 THEN -1 ELSE 0,
     d |-> [k \in 1..8 |-> IF k <= 4 THEN (n \div (256 ^ (k - 1))) % 256
                           ELSE IF n < 0 THEN 255 ELSE 0]]

SignByte(a) == IF a.t < 0 THEN 255 ELSE 0

RECURSIVE NumAddFrom(_, _, _, _, _)
NumAddFrom(a, b, k, carry, acc) ==
    IF k > 8 THEN [t |-> a.t + b.t + carry, d |-> acc]
    ELSE LET s == a.d[k] + b.d[k] + carry
         IN NumAddFrom(a, b, k + 1, s \div 256, Append(acc, s % 256))

\* a + b
NumAdd(a, b) == NumAddFrom(a, b, 1, 0, <<>>)

\* -a
NumNeg(a) ==
    NumAdd([t |-> (-a.t) - 1, d |-> [k \in 1..8 |-> 255 - a.d[k]]],
           NumOfInt(1))

RECURSIVE DigitsLess(_, _, _)
DigitsLess(x, y, k) ==
    IF k = 0 THEN FALSE
    ELSE IF x[k] # y[k] THEN x[k] < y[k] ELSE DigitsLess(x, y, k - 1)

\* a < b
NumLess(a, b) == IF a.t # b.t THEN a.t < b.t ELSE DigitsLess(a.d, b.d, 8)

\* a * 2 ** e, e a multiple of 8 (also BigInt a << 32n)
RECURSIVE NumTimes2Pow(_, _)
NumTimes2Pow(a, e) ==
    IF e = 0 THEN a
    ELSE NumTimes2Pow([t |-> a.t * 256 + a.d[8],
                       d |-> <<0>> \o SubSeq(a.d, 1, 7)], e - 8)

RECURSIVE NumTimesByteFrom(_, _, _, _, _)
NumTimesByteFrom(a, m, k, carry, acc) ==
    IF k > 8 THEN [t |-> a.t * m + carry, d |-> acc]
    ELSE LET s == a.d[k] * m + carry
         IN NumTimesByteFrom(a, m, k + 1, s \div 256, Append(acc, s % 256))

\* a * m for a non-negative integer m below 2^31
NumTimes(a, m) ==
    LET part(k) == NumTimes2Pow(
                       NumTimesByteFrom(a, (m \div (256 ^ k)) % 256, 1, 0, <<>>),
                       8 * k)
    IN NumAdd(NumAdd(part(0), part(1)), NumAdd(part(2), part(3)))

\* the number written as a hexadecimal literal of at most 16 digits, most
\* significant first: two digits to the byte
HexLiteral(digits) ==
    LET n == Len(digits)
        digit(k) == IF k >= 1 THEN digits[k] ELSE 0
    IN [t |-> 0,
        d |-> [k \in 1..8 |-> digit(n - 2 * (k - 1))
                              + 16 * digit(n - 2 * (k - 1) - 1)]]

\* n repetitions of the hexadecimal digit f, and the digit 8 or 7 followed
\* by n zeros or n digits f
Fs(n) == [k \in 1..n |-> 15]
EightZeros(n) == <<8>> \o [k \in 1..n |-> 0]
SevenFs(n) == <<7>> \o Fs(n)

\* ToUint32 and ToInt32 of the language
ToUint32(a) == [t |-> 0, d |-> [k \in 1..8 |-> IF k <= 4 THEN a.d[k] ELSE 0]]
ToInt32(a) ==
    LET neg == a.d[4] >= 128
    IN [t |-> IF neg THEN -1 ELSE 0,
        d |-> [k \in 1..8 |-> IF k <= 4 THEN a.d[k]
                              ELSE IF neg THEN 255 ELSE 0]]

\* a | b
NumOr(a, b) ==
    LET x == ToInt32(a)
        y == ToInt32(b)
    IN [t |-> IF x.t < 0 \/ y.t < 0 THEN -1 ELSE 0,
        d |-> [k \in 1..8 |-> BitOr(x.d[k], y.d[k])]]

\* a >>> 8
NumUshr8(a) ==
    LET x == ToUint32(a)
    IN [t |-> 0, d |-> <<x.d[2], x.d[3], x.d[4], 0, 0, 0, 0, 0>>]

\* a >> 8
NumSar8(a) ==
    LET x == ToInt32(a)
    IN [t |-> x.t, d |-> SubSeq(x.d, 2, 8) \o <<SignByte(x)>>]

\* Math.floor(a * 2 ** -32), and BigInt a >> 32n, for -2^64 <= a < 2^64
NumFloorDiv2Pow32(a) ==
    [t |-> a.t,
     d |-> SubSeq(a.d, 5, 8)
           \o <<SignByte(a), SignByte(a), SignByte(a), SignByte(a)>>]

\* the byte stored by `buf[k] = a`
ToUint8(a) == a.d[1]

-----------------------------------------------------------------------------
(***************************************************************************)
(* Numeric accessors.  An offset is [n, frac]: the number n, or n + 0.5    *)
(* when frac.  A read returns [thrown, value]; a write returns             *)
(* [thrown, buf, ret].                                                     *)
(***************************************************************************)
\* an element read that truncates a fractional offset
ElemTruncating(buf, off) ==
    IF off.n < 0 \/ off.n >= Len(buf) THEN Undefined ELSE buf[off.n + 1]

\* buf[offset] for any numeric offset
Elem(buf, off) ==
    IF off.frac \/ off.n < 0 \/ off.n >= Len(buf) THEN Undefined
    ELSE buf[off.n + 1]

OffPlus(off, k) == [off EXCEPT !.n = @ + k]

\* boundsError(value, length): the error it throws
boundsError(off, length) ==
    IF off.frac THEN "ERR_OUT_OF_RANGE"
    ELSE IF length < 0 THEN "ERR_BUFFER_OUT_OF_BOUNDS"
    ELSE "ERR_OUT_OF_RANGE"

Raise(e) == [thrown |-> e, value |-> NumOfInt(0)]
Return(v) == [thrown |-> "none", value |-> v]

\* byte * 2 ** e
Term(byte, e) == NumTimes2Pow(NumOfInt(byte), e)
Sum4(a, b, c, d) == NumAdd(NumAdd(NumAdd(a, b), c), d)

\* a read that leaves the sign bit alone
SignExtendNone(v, bit, factor) == NumOfInt(v)

\* val | (val & bit) * factor
SignExtend(v, bit, factor) ==
    NumOr(NumOfInt(v), NumTimes(NumOfInt(BitAnd(v, bit)), factor))

\* byte << 24
Shl24(byte) == ToInt32(Term(byte, 24))

readBigUInt64LE(buf, off) ==
    LET first == Elem(buf, off)
        last == Elem(buf, OffPlus(off, 7))
        b(k) == buf[off.n + 1 + k]
    IN IF first = Undefined \/ last = Undefined
       THEN Raise(boundsError(off, Len(buf) - 8))
       ELSE LET lo == Sum4(NumOfInt(first), Term(b(1), 8), Term(b(2), 16),
                           Term(b(3), 24))
                hi == Sum4(NumOfInt(b(4)), Term(b(5), 8), Term(b(6), 16),
                           Term(last, 24))
            IN Return(NumAdd(lo, NumTimes2Pow(hi, 32)))

readBigUInt64BE(buf, off) ==
    LET first == Elem(buf, off)
        last == Elem(buf, OffPlus(off, 7))
        b(k) == buf[off.n + 1 + k]
    IN IF first = Undefined \/ last = Undefined
       THEN Raise(boundsError(off, Len(buf) - 8))
       ELSE LET hi == Sum4(Term(first, 24), Term(b(1), 16), Term(b(2), 8),
                           NumOfInt(b(3)))
                lo == Sum4(Term(b(4), 24), Term(b(5), 16), Term(b(6), 8),
                           NumOfInt(last))
            IN Return(NumAdd(NumTimes2Pow(hi, 32), lo))

readBigInt64LE(buf, off) ==
    LET first == Elem(buf, off)
        last == Elem(buf, OffPlus(off, 7))
        b(k) == buf[off.n + 1 + k]
    IN IF first = Undefined \/ last = Undefined
       THEN Raise(boundsError(off, Len(buf) - 8))
       ELSE LET v == Sum4(NumOfInt(b(4)), Term(b(5), 8), Term(b(6), 16),
                          Shl24(last))
            IN Return(NumAdd(NumTimes2Pow(v, 32),
                             Sum4(NumOfInt(first), Term(b(1), 8),
                                  Term(b(2), 16), Term(b(3), 24))))

readBigInt64BE(buf, off) ==
    LET first == Elem(buf, off)
        last == Elem(buf, OffPlus(off, 7))
        b(k) == buf[off.n + 1 + k]
    IN IF first = Undefined \/ last = Undefined
       THEN Raise(boundsError(off, Len(buf) - 8))
       ELSE LET v == Sum4(Shl24(first), Term(b(1), 16), Term(b(2), 8),
                          NumOfInt(b(3)))
            IN Return(NumAdd(NumTimes2Pow(v, 32),
                             Sum4(Term(b(4), 24), Term(b(5), 16),
                                  Term(b(6), 8), NumOfInt(last))))

readUInt48LE(buf, off) ==
    LET first == Elem(buf, off)
        last == Elem(buf, OffPlus(off, 5))
        b(k) == buf[off.n + 1 + k]
    IN IF first = Undefined \/ last = Undefined
       THEN Raise(boundsError(off, Len(buf) - 6))
       ELSE Return(NumAdd(Sum4(NumOfInt(first), Term(b(1), 8), Term(b(2), 16),
                               Term(b(3), 24)),
                          NumTimes2Pow(NumAdd(NumOfInt(b(4)), Term(last, 8)),
                                       32)))

readUInt40LE(buf, off) ==
    LET first == Elem(buf, off)
        last == Elem(buf, OffPlus(off, 4))
        b(k) == buf[off.n + 1 + k]
    IN IF first = Undefined \/ last = Undefined
       THEN Raise(boundsError(off, Len(buf) - 5))
       ELSE Return(NumAdd(Sum4(NumOfInt(first), Term(b(1), 8), Term(b(2), 16),
                               Term(b(3), 24)),
                          Term(last, 32)))

\* readUInt32LE with the last byte shifted as a 32-bit integer
readUInt32LEShifting(buf, off) ==
    LET first == Elem(buf, off)
        last == Elem(buf, OffPlus(off, 3))
        b(k) == buf[off.n + 1 + k]
    IN IF first = Undefined \/ last = Undefined
       THEN Raise(boundsError(off, Len(buf) - 4))
       ELSE Return(Sum4(NumOfInt(first), Term(b(1), 8), Term(b(2), 16),
                        Shl24(last)))

readUInt32LE(buf, off) ==
    LET first == Elem(buf, off)
        last == Elem(buf, OffPlus(off, 3))
        b(k) == buf[off.n + 1 + k]
    IN IF first = Undefined \/ last = Undefined
       THEN Raise(boundsError(off, Len(buf) - 4))
       ELSE Return(Sum4(NumOfInt(first), Term(b(1), 8), Term(b(2), 16),
                        Term(last, 24)))

readUInt24LE(buf, off) ==
    LET first == Elem(buf, off)
        last == Elem(buf, OffPlus(off, 2))
        b(k) == buf[off.n + 1 + k]
    IN IF first = Undefined \/ last = Undefined
       THEN Raise(boundsError(off, Len(buf) - 3))
       ELSE Return(NumAdd(NumAdd(NumOfInt(first), Term(b(1), 8)),
                          Term(last, 16)))

readUInt16LE(buf, off) ==
    LET first == Elem(buf, off)
        last == Elem(buf, OffPlus(off, 1))
    IN IF first = Undefined \/ last = Undefined
       THEN Raise(boundsError(off, Len(buf) - 2))
       ELSE Return(NumAdd(NumOfInt(first), Term(last, 8)))

readUInt8(buf, off) ==
    LET v == Elem(buf, off)
    IN IF v = Undefined THEN Raise(boundsError(off, Len(buf) - 1))
       ELSE Return(NumOfInt(v))

readUIntLE(buf, off, byteLength) ==
    CASE byteLength = 6 -> readUInt48LE(buf, off)
      [] byteLength = 5 -> readUInt40LE(buf, off)
      [] byteLength = 3 -> readUInt24LE(buf, off)
      [] byteLength = 4 -> readUInt32LE(buf, off)
      [] byteLength = 2 -> readUInt16LE(buf, off)
      [] byteLength = 1 -> readUInt8(buf, off)
      [] OTHER -> Raise("ERR_OUT_OF_RANGE")

readUInt48BE(buf, off) ==
    LET first == Elem(buf, off)
        last == Elem(buf, OffPlus(off, 5))
        b(k) == buf[off.n + 1 + k]
    IN IF first = Undefined \/ last = Undefined
       THEN Raise(boundsError(off, Len(buf) - 6))
       ELSE Return(NumAdd(NumTimes2Pow(NumAdd(Term(first, 8), NumOfInt(b(1))),
                                       32),
                          Sum4(Term(b(2), 24), Term(b(3), 16), Term(b(4), 8),
                               NumOfInt(last))))

readUInt40BE(buf, off) ==
    LET first == Elem(buf, off)
        last == Elem(buf, OffPlus(off, 4))
        b(k) == buf[off.n + 1 + k]
    IN IF first = Undefined \/ last = Undefined
       THEN Raise(boundsError(off, Len(buf) - 5))
       ELSE Return(NumAdd(Term(first, 32),
                          Sum4(Term(b(1), 24), Term(b(2), 16), Term(b(3), 8),
                               NumOfInt(last))))

readUInt32BE(buf, off) ==
    LET first == Elem(buf, off)
        last == Elem(buf, OffPlus(off, 3))
        b(k) == buf[off.n + 1 + k]
    IN IF first = Undefined \/ last = Undefined
       THEN Raise(boundsError(off, Len(buf) - 4))
       ELSE Return(Sum4(Term(first, 24), Term(b(1), 16), Term(b(2), 8),
                        NumOfInt(last)))

readUInt24BE(buf, off) ==
    LET first == Elem(buf, off)
        last == Elem(buf, OffPlus(off, 2))
        b(k) == buf[off.n + 1 + k]
    IN IF first = Undefined \/ last = Undefined
       THEN Raise(boundsError(off, Len(buf) - 3))
       ELSE Return(NumAdd(NumAdd(Term(first, 16), Term(b(1), 8)),
                          NumOfInt(last)))

readUInt16BE(buf, off) ==
    LET first == Elem(buf, off)
        last == Elem(buf, OffPlus(off, 1))
    IN IF first = Undefined \/ last = Undefined
       THEN Raise(boundsError(off, Len(buf) - 2))
       ELSE Return(NumAdd(Term(first, 8), NumOfInt(last)))

readUIntBE(buf, off, byteLength) ==
    CASE byteLength = 6 -> readUInt48BE(buf, off)
      [] byteLength = 5 -> readUInt40BE(buf, off)
      [] byteLength = 3 -> readUInt24BE(buf, off)
      [] byteLength = 4 -> readUInt32BE(buf, off)
      [] byteLength = 2 -> readUInt16BE(buf, off)
      [] byteLength = 1 -> readUInt8(buf, off)
      [] OTHER -> Raise("ERR_OUT_OF_RANGE")

readInt48LE(buf, off) ==
    LET first == Elem(buf, off)
        last == Elem(buf, OffPlus(off, 5))
        b(k) == buf[off.n + 1 + k]
    IN IF first = Undefined \/ last = Undefined
       THEN Raise(boundsError(off, Len(buf) - 6))
       ELSE LET v == b(4) + last * 2^8
            IN Return(NumAdd(NumTimes2Pow(SignExtend(v, 2^15, 131070), 32),
                             Sum4(NumOfInt(first), Term(b(1), 8),
                                  Term(b(2), 16), Term(b(3), 24))))

readInt40LE(buf, off) ==
    LET first == Elem(buf, off)
        last == Elem(buf, OffPlus(off, 4))
        b(k) == buf[off.n + 1 + k]
    IN IF first = Undefined \/ last = Undefined
       THEN Raise(boundsError(off, Len(buf) - 5))
       ELSE Return(NumAdd(NumTimes2Pow(SignExtend(last, 2^7, 33554430), 32),
                          Sum4(NumOfInt(first), Term(b(1), 8),
                               Term(b(2), 16), Term(b(3), 24))))

readInt32LE(buf, off) ==
    LET first == Elem(buf, off)
        last == Elem(buf, OffPlus(off, 3))
        b(k) == buf[off.n + 1 + k]
    IN IF first = Undefined \/ last = Undefined
       THEN Raise(boundsError(off, Len(buf) - 4))
       ELSE Return(Sum4(NumOfInt(first), Term(b(1), 8), Term(b(2), 16),
                        Shl24(last)))

readInt24LE(buf, off) ==
    LET first == Elem(buf, off)
        last == Elem(buf, OffPlus(off, 2))
        b(k) == buf[off.n + 1 + k]
    IN IF first = Undefined \/ last = Undefined
       THEN Raise(boundsError(off, Len(buf) - 3))
       ELSE LET v == first + b(1) * 2^8 + last * 2^16
            IN Return(SignExtend(v, 2^23, 510))

readInt16LE(buf, off) ==
    LET first == Elem(buf, off)
        last == Elem(buf, OffPlus(off, 1))
    IN IF first = Undefined \/ last = Undefined
       THEN Raise(boundsError(off, Len(buf) - 2))
       ELSE LET v == first + last * 2^8
            IN Return(SignExtend(v, 2^15, 131070))

readInt8(buf, off) ==
    LET v == Elem(buf, off)
    IN IF v = Undefined THEN Raise(boundsError(off, Len(buf) - 1))
       ELSE Return(SignExtend(v, 2^7, 33554430))

readIntLE(buf, off, byteLength) ==
    CASE byteLength = 6 -> readInt48LE(buf, off)
      [] byteLength = 5 -> readInt40LE(buf, off)
      [] byteLength = 3 -> readInt24LE(buf, off)
      [] byteLength = 4 -> readInt32LE(buf, off)
      [] byteLength = 2 -> readInt16LE(buf, off)
      [] byteLength = 1 -> readInt8(buf, off)
      [] OTHER -> Raise("ERR_OUT_OF_RANGE")

readInt48BE(buf, off) ==
    LET first == Elem(buf, off)
        last == Elem(buf, OffPlus(off, 5))
        b(k) == buf[off.n + 1 + k]
    IN IF first = Undefined \/ last = Undefined
       THEN Raise(boundsError(off, Len(buf) - 6))
       ELSE LET v == b(1) + first * 2^8
            IN Return(NumAdd(NumTimes2Pow(SignExtend(v, 2^15, 131070), 32),
                             Sum4(Term(b(2), 24), Term(b(3), 16),
                                  Term(b(4), 8), NumOfInt(last))))

readInt40BE(buf, off) ==
    LET first == Elem(buf, off)
        last == Elem(buf, OffPlus(off, 4))
        b(k) == buf[off.n + 1 + k]
    IN IF first = Undefined \/ last = Undefined
       THEN Raise(boundsError(off, Len(buf) - 5))
       ELSE Return(NumAdd(NumTimes2Pow(SignExtend(first, 2^7, 33554430), 32),
                          Sum4(Term(b(1), 24), Term(b(2), 16),
                               Term(b(3), 8), NumOfInt(last))))

readInt32BE(buf, off) ==
    LET first == Elem(buf, off)
        last == Elem(buf, OffPlus(off, 3))
        b(k) == buf[off.n + 1 + k]
    IN IF first = Undefined \/ last = Undefined
       THEN Raise(boundsError(off, Len(buf) - 4))
       ELSE Return(Sum4(Shl24(first), Term(b(1), 16), Term(b(2), 8),
                        NumOfInt(last)))

readInt24BE(buf, off) ==
    LET first == Elem(buf, off)
        last == Elem(buf, OffPlus(off, 2))
        b(k) == buf[off.n + 1 + k]
    IN IF first = Undefined \/ last = Undefined
       THEN Raise(boundsError(off, Len(buf) - 3))
       ELSE LET v == first * 2^16 + b(1) * 2^8 + last
            IN Return(SignExtend(v, 2^23, 510))

readInt16BE(buf, off) ==
    LET first == Elem(buf, off)
        last == Elem(buf, OffPlus(off, 1))
    IN IF first = Undefined \/ last = Undefined
       THEN Raise(boundsError(off, Len(buf) - 2))
       ELSE LET v == first * 2^8 + last
            IN Return(SignExtend(v, 2^15, 131070))

readIntBE(buf, off, byteLength) ==
    CASE byteLength = 6 -> readInt48BE(buf, off)
      [] byteLength = 5 -> readInt40BE(buf, off)
      [] byteLength = 3 -> readInt24BE(buf, off)
      [] byteLength = 4 -> readInt32BE(buf, off)
      [] byteLength = 2 -> readInt16BE(buf, off)
      [] byteLength = 1 -> readInt8(buf, off)
      [] OTHER -> Raise("ERR_OUT_OF_RANGE")

\* The floating-point accessors move bytes between the buffer and the
\* scratch arrays uInt8Float32Array / uInt8Float64Array; the value of a
\* float is held as the bytes of the scratch array, first element first.
ScratchValue(bytes) ==
    [t |-> 0, d |-> [k \in 1..8 |-> IF k <= Len(bytes) THEN bytes[k] ELSE 0]]

readFloatBackwards(buf, off) ==
    LET first == Elem(buf, off)
        last == Elem(buf, OffPlus(off, 3))
        b(k) == buf[off.n + 1 + k]
    IN IF first = Undefined \/ last = Undefined
       THEN Raise(boundsError(off, Len(buf) - 4))
       ELSE Return(ScratchValue(<<last, b(2), b(1), first>>))

readFloatForwards(buf, off) ==
    LET first == Elem(buf, off)
        last == Elem(buf, OffPlus(off, 3))
        b(k) == buf[off.n + 1 + k]
    IN IF first = Undefined \/ last = Undefined
       THEN Raise(boundsError(off, Len(buf) - 4))
       ELSE Return(ScratchValue(<<first, b(1), b(2), last>>))

readDoubleBackwards(buf, off) ==
    LET first == Elem(buf, off)
        last == Elem(buf, OffPlus(off, 7))
        b(k) == buf[off.n + 1 + k]
    IN IF first = Undefined \/ last = Undefined
       THEN Raise(boundsError(off, Len(buf) - 8))
       ELSE Return(ScratchValue(<<last, b(6), b(5), b(4), b(3), b(2), b(1),
                                  first>>))

readDoubleForwards(buf, off) ==
    LET first == Elem(buf, off)
        last == Elem(buf, OffPlus(off, 7))
        b(k) == buf[off.n + 1 + k]
    IN IF first = Undefined \/ last = Undefined
       THEN Raise(boundsError(off, Len(buf) - 8))
       ELSE Return(ScratchValue(<<first, b(1), b(2), b(3), b(4), b(5), b(6),
                                  last>>))

\* checkBounds(buf, offset, byteLength): the error it throws, or "none"
checkBounds(buf, off, byteLength) ==
    IF Elem(buf, off) = Undefined
       \/ Elem(buf, OffPlus(off, byteLength)) = Undefined
    THEN boundsError(off, Len(buf) - (byteLength + 1))
    ELSE "none"

\* a range check that lets the value max + 1 through
checkIntOffByOne(v, min, max, buf, off, byteLength) ==
    IF NumLess(NumAdd(max, NumOfInt(1)), v) \/ NumLess(v, min)
    THEN "ERR_OUT_OF_RANGE"
    ELSE checkBounds(buf, off, byteLength)

\* checkInt(value, min, max, buf, offset, byteLength)
checkInt(v, min, max, buf, off, byteLength) ==
    IF NumLess(max, v) \/ NumLess(v, min) THEN "ERR_OUT_OF_RANGE"
    ELSE checkBounds(buf, off, byteLength)

\* buf[n] = bytes[1]; buf[n + 1] = bytes[2]; ...
Stores(buf, n, bytes) ==
    [k \in 1..Len(buf) |-> IF k - n >= 1 /\ k - n <= Len(bytes)
                           THEN bytes[k - n] ELSE buf[k]]

Threw(e, buf) == [thrown |-> e, buf |-> buf, ret |-> Undefined]
Wrote(buf, n) == [thrown |-> "none", buf |-> buf, ret |-> n]

writeBigU_Int64LE(buf, v, off, min, max) ==
    LET e == checkInt(v, min, max, buf, off, 7)
        lo0 == ToUint32(v)
        lo1 == NumSar8(lo0)
        lo2 == NumSar8(lo1)
        lo3 == NumSar8(lo2)
        hi0 == ToUint32(NumFloorDiv2Pow32(v))
        hi1 == NumSar8(hi0)
        hi2 == NumSar8(hi1)
        hi3 == NumSar8(hi2)
    IN IF e # "none" THEN Threw(e, buf)
       ELSE Wrote(Stores(buf, off.n,
                         <<ToUint8(lo0), ToUint8(lo1), ToUint8(lo2),
                           ToUint8(lo3), ToUint8(hi0), ToUint8(hi1),
                           ToUint8(hi2), ToUint8(hi3)>>),
                  off.n + 8)

writeBigUInt64LE(buf, v, off) ==
    writeBigU_Int64LE(buf, v, off, NumOfInt(0), HexLiteral(Fs(16)))

writeBigU_Int64BE(buf, v, off, min, max) ==
    LET e == checkInt(v, min, max, buf, off, 7)
        lo0 == ToUint32(v)
        lo1 == NumSar8(lo0)
        lo2 == NumSar8(lo1)
        lo3 == NumSar8(lo2)
        hi0 == ToUint32(NumFloorDiv2Pow32(v))
        hi1 == NumSar8(hi0)
        hi2 == NumSar8(hi1)
        hi3 == NumSar8(hi2)
    IN IF e # "none" THEN Threw(e, buf)
       ELSE Wrote(Stores(buf, off.n,
                         <<ToUint8(hi3), ToUint8(hi2), ToUint8(hi1),
                           ToUint8(hi0), ToUint8(lo3), ToUint8(lo2),
                           ToUint8(lo1), ToUint8(lo0)>>),
                  off.n + 8)

writeBigUInt64BE(buf, v, off) ==
    writeBigU_Int64BE(buf, v, off, NumOfInt(0), HexLiteral(Fs(16)))

writeBigInt64LE(buf, v, off) ==
    writeBigU_Int64LE(buf, v, off, NumNeg(HexLiteral(EightZeros(15))),
                      HexLiteral(SevenFs(15)))

writeBigInt64BE(buf, v, off) ==
    writeBigU_Int64BE(buf, v, off, NumNeg(HexLiteral(EightZeros(15))),
                      HexLiteral(SevenFs(15)))

writeU_Int48LE(buf, v, off, min, max) ==
    LET e == checkInt(v, min, max, buf, off, 5)
        newVal == NumFloorDiv2Pow32(v)
        v1 == NumUshr8(v)
        v2 == NumUshr8(v1)
        v3 == NumUshr8(v2)
    IN IF e # "none" THEN Threw(e, buf)
       ELSE Wrote(Stores(buf, off.n,
                         <<ToUint8(v), ToUint8(v1), ToUint8(v2), ToUint8(v3),
                           ToUint8(newVal), ToUint8(NumUshr8(newVal))>>),
                  off.n + 6)

writeU_Int40LE(buf, v, off, min, max) ==
    LET e == checkInt(v, min, max, buf, off, 4)
        newVal == v
        v1 == NumUshr8(v)
        v2 == NumUshr8(v1)
        v3 == NumUshr8(v2)
    IN IF e # "none" THEN Threw(e, buf)
       ELSE Wrote(Stores(buf, off.n,
                         <<ToUint8(v), ToUint8(v1), ToUint8(v2), ToUint8(v3),
                           ToUint8(NumFloorDiv2Pow32(newVal))>>),
                  off.n + 5)

writeU_Int32LE(buf, v, off, min, max) ==
    LET e == checkInt(v, min, max, buf, off, 3)
        v1 == NumUshr8(v)
        v2 == NumUshr8(v1)
        v3 == NumUshr8(v2)
    IN IF e # "none" THEN Threw(e, buf)
       ELSE Wrote(Stores(buf, off.n,
                         <<ToUint8(v), ToUint8(v1), ToUint8(v2), ToUint8(v3)>>),
                  off.n + 4)

writeU_Int24LE(buf, v, off, min, max) ==
    LET e == checkInt(v, min, max, buf, off, 2)
        v1 == NumUshr8(v)
        v2 == NumUshr8(v1)
    IN IF e # "none" THEN Threw(e, buf)
       ELSE Wrote(Stores(buf, off.n, <<ToUint8(v), ToUint8(v1), ToUint8(v2)>>),
                  off.n + 3)

writeU_Int16LE(buf, v, off, min, max) ==
    LET e == checkInt(v, min, max, buf, off, 1)
    IN IF e # "none" THEN Threw(e, buf)
       ELSE Wrote(Stores(buf, off.n, <<ToUint8(v), ToUint8(NumUshr8(v))>>),
                  off.n + 2)

writeU_Int8(buf, v, off, min, max) ==
    IF NumLess(max, v) \/ NumLess(v, min) THEN Threw("ERR_OUT_OF_RANGE", buf)
    ELSE IF Elem(buf, off) = Undefined
    THEN Threw(boundsError(off, Len(buf) - 1), buf)
    ELSE Wrote(Stores(buf, off.n, <<ToUint8(v)>>), off.n + 1)

writeUIntLE(buf, v, off, byteLength) ==
    CASE byteLength = 6 ->
           writeU_Int48LE(buf, v, off, NumOfInt(0), HexLiteral(Fs(12)))
      [] byteLength = 5 ->
           writeU_Int40LE(buf, v, off, NumOfInt(0), HexLiteral(Fs(10)))
      [] byteLength = 3 ->
           writeU_Int24LE(buf, v, off, NumOfInt(0), HexLiteral(Fs(6)))
      [] byteLength = 4 ->
           writeU_Int32LE(buf, v, off, NumOfInt(0), HexLiteral(Fs(8)))
      [] byteLength = 2 ->
           writeU_Int16LE(buf, v, off, NumOfInt(0), HexLiteral(Fs(4)))
      [] byteLength = 1 ->
           writeU_Int8(buf, v, off, NumOfInt(0), HexLiteral(Fs(2)))
      [] OTHER -> Threw("ERR_OUT_OF_RANGE", buf)

writeU_Int48BE(buf, v, off, min, max) ==
    LET e == checkInt(v, min, max, buf, off, 5)
        newVal == NumFloorDiv2Pow32(v)
        v1 == NumUshr8(v)
        v2 == NumUshr8(v1)
        v3 == NumUshr8(v2)
    IN IF e # "none" THEN Threw(e, buf)
       ELSE Wrote(Stores(buf, off.n,
                         <<ToUint8(NumUshr8(newVal)), ToUint8(newVal),
                           ToUint8(v3), ToUint8(v2), ToUint8(v1), ToUint8(v)>>),
                  off.n + 6)

writeU_Int40BE(buf, v, off, min, max) ==
    LET e == checkInt(v, min, max, buf, off, 4)
        v1 == NumUshr8(v)
        v2 == NumUshr8(v1)
        v3 == NumUshr8(v2)
    IN IF e # "none" THEN Threw(e, buf)
       ELSE Wrote(Stores(buf, off.n,
                         <<ToUint8(NumFloorDiv2Pow32(v)),
                           ToUint8(v3), ToUint8(v2), ToUint8(v1), ToUint8(v)>>),
                  off.n + 5)

writeU_Int32BE(buf, v, off, min, max) ==
    LET e == checkInt(v, min, max, buf, off, 3)
        v1 == NumUshr8(v)
        v2 == NumUshr8(v1)
        v3 == NumUshr8(v2)
    IN IF e # "none" THEN Threw(e, buf)
       ELSE Wrote(Stores(buf, off.n,
                         <<ToUint8(v3), ToUint8(v2), ToUint8(v1), ToUint8(v)>>),
                  off.n + 4)

writeU_Int24BE(buf, v, off, min, max) ==
    LET e == checkInt(v, min, max, buf, off, 2)
        v1 == NumUshr8(v)
        v2 == NumUshr8(v1)
    IN IF e # "none" THEN Threw(e, buf)
       ELSE Wrote(Stores(buf, off.n, <<ToUint8(v2), ToUint8(v1), ToUint8(v)>>),
                  off.n + 3)

writeU_Int16BE(buf, v, off, min, max) ==
    LET e == checkInt(v, min, max, buf, off, 1)
    IN IF e # "none" THEN Threw(e, buf)
       ELSE Wrote(Stores(buf, off.n, <<ToUint8(NumUshr8(v)), ToUint8(v)>>),
                  off.n + 2)

writeUIntBE(buf, v, off, byteLength) ==
    CASE byteLength = 6 ->
           writeU_Int48BE(buf, v, off, NumOfInt(0), HexLiteral(Fs(12)))
      [] byteLength = 5 ->
           writeU_Int40BE(buf, v, off, NumOfInt(0), HexLiteral(Fs(10)))
      [] byteLength = 3 ->
           writeU_Int24BE(buf, v, off, NumOfInt(0), HexLiteral(Fs(6)))
      [] byteLength = 4 ->
           writeU_Int32BE(buf, v, off, NumOfInt(0), HexLiteral(Fs(8)))
      [] byteLength = 2 ->
           writeU_Int16BE(buf, v, off, NumOfInt(0), HexLiteral(Fs(4)))
      [] byteLength = 1 ->
           writeU_Int8(buf, v, off, NumOfInt(0), HexLiteral(Fs(2)))
      [] OTHER -> Threw("ERR_OUT_OF_RANGE", buf)

writeIntLE(buf, v, off, byteLength) ==
    CASE byteLength = 6 ->
           writeU_Int48LE(buf, v, off, NumNeg(HexLiteral(EightZeros(11))),
                          HexLiteral(SevenFs(11)))
      [] byteLength = 5 ->
           writeU_Int40LE(buf, v, off, NumNeg(HexLiteral(EightZeros(9))),
                          HexLiteral(SevenFs(9)))
      [] byteLength = 3 ->
           writeU_Int24LE(buf, v, off, NumNeg(HexLiteral(EightZeros(5))),
                          HexLiteral(SevenFs(5)))
      [] byteLength = 4 ->
           writeU_Int32LE(buf, v, off, NumNeg(HexLiteral(EightZeros(7))),
                          HexLiteral(SevenFs(7)))
      [] byteLength = 2 ->
           writeU_Int16LE(buf, v, off, NumNeg(HexLiteral(EightZeros(3))),
                          HexLiteral(SevenFs(3)))
      [] byteLength = 1 ->
           writeU_Int8(buf, v, off, NumNeg(HexLiteral(EightZeros(1))),
                       HexLiteral(SevenFs(1)))
      [] OTHER -> Threw("ERR_OUT_OF_RANGE", buf)

writeIntBE(buf, v, off, byteLength) ==
    CASE byteLength = 6 ->
           writeU_Int48BE(buf, v, off, NumNeg(HexLiteral(EightZeros(11))),
                          HexLiteral(SevenFs(11)))
      [] byteLength = 5 ->
           writeU_Int40BE(buf, v, off, NumNeg(HexLiteral(EightZeros(9))),
                          HexLiteral(SevenFs(9)))
      [] byteLength = 3 ->
           writeU_Int24BE(buf, v, off, NumNeg(HexLiteral(EightZeros(5))),
                          HexLiteral(SevenFs(5)))
      [] byteLength = 4 ->
           writeU_Int32BE(buf, v, off, NumNeg(HexLiteral(EightZeros(7))),
                          HexLiteral(SevenFs(7)))
      [] byteLength = 2 ->
           writeU_Int16BE(buf, v, off, NumNeg(HexLiteral(EightZeros(3))),
                          HexLiteral(SevenFs(3)))
      [] byteLength = 1 ->
           writeU_Int8(buf, v, off, NumNeg(HexLiteral(EightZeros(1))),
                       HexLiteral(SevenFs(1)))
      [] OTHER -> Threw("ERR_OUT_OF_RANGE", buf)

writeDoubleForwards(buf, v, off) ==
    LET e == checkBounds(buf, off, 7)
    IN IF e # "none" THEN Threw(e, buf)
       ELSE Wrote(Stores(buf, off.n, v.d), off.n + 8)

writeDoubleBackwards(buf, v, off) ==
    LET e == checkBounds(buf, off, 7)
    IN IF e # "none" THEN Threw(e, buf)
       ELSE Wrote(Stores(buf, off.n, [k \in 1..8 |-> v.d[9 - k]]), off.n + 8)

writeFloatForwards(buf, v, off) ==
    LET e == checkBounds(buf, off, 3)
    IN IF e # "none" THEN Threw(e, buf)
       ELSE Wrote(Stores(buf, off.n, SubSeq(v.d, 1, 4)), off.n + 4)

writeFloatBackwards(buf, v, off) ==
    LET e == checkBounds(buf, off, 3)
    IN IF e # "none" THEN Threw(e, buf)
       ELSE Wrote(Stores(buf, off.n, [k \in 1..4 |-> v.d[5 - k]]), off.n + 4)

-----------------------------------------------------------------------------
(***************************************************************************)
(* The accessors as called on a buffer.  An accessor is [kind, w, le]:     *)
(* kind "UInt"/"Int" with w in 1..6 is (read|write)(U)Int(LE|BE) with      *)
(* byteLength w; "BigUInt"/"BigInt" are the 64-bit accessors; "Float" and  *)
(* "Double" carry the byte order `bigEndian` of the platform as well.      *)
(***************************************************************************)
writeFloatLE(buf, v, off, bigEndian) ==
    IF bigEndian THEN writeFloatBackwards(buf, v, off)
    ELSE writeFloatForwards(buf, v, off)
writeFloatBE(buf, v, off, bigEndian) ==
    IF bigEndian THEN writeFloatForwards(buf, v, off)
    ELSE writeFloatBackwards(buf, v, off)
writeDoubleLE(buf, v, off, bigEndian) ==
    IF bigEndian THEN writeDoubleBackwards(buf, v, off)
    ELSE writeDoubleForwards(buf, v, off)
writeDoubleBE(buf, v, off, bigEndian) ==
    IF bigEndian THEN writeDoubleForwards(buf, v, off)
    ELSE writeDoubleBackwards(buf, v, off)
readFloatLE(buf, off, bigEndian) ==
    IF bigEndian THEN readFloatBackwards(buf, off)
    ELSE readFloatForwards(buf, off)
readFloatBE(buf, off, bigEndian) ==
    IF bigEndian THEN readFloatForwards(buf, off)
    ELSE readFloatBackwards(buf, off)
readDoubleLE(buf, off, bigEndian) ==
    IF bigEndian THEN readDoubleBackwards(buf, off)
    ELSE readDoubleForwards(buf, off)
readDoubleBE(buf, off, bigEndian) ==
    IF bigEndian THEN readDoubleForwards(buf, off)
    ELSE readDoubleBackwards(buf, off)

\* the write accessor named by acc, applied to buf
WriteCall(buf, v, off, acc) ==
    CASE acc.kind = "UInt" /\ acc.le -> writeUIntLE(buf, v, off, acc.w)
      [] acc.kind = "UInt" /\ ~acc.le -> writeUIntBE(buf, v, off, acc.w)
      [] acc.kind = "Int" /\ acc.le -> writeIntLE(buf, v, off, acc.w)
      [] acc.kind = "Int" /\ ~acc.le -> writeIntBE(buf, v, off, acc.w)
      [] acc.kind = "BigUInt" /\ acc.le -> writeBigUInt64LE(buf, v, off)
      [] acc.kind = "BigUInt" /\ ~acc.le -> writeBigUInt64BE(buf, v, off)
      [] acc.kind = "BigInt" /\ acc.le -> writeBigInt64LE(buf, v, off)
      [] acc.kind = "BigInt" /\ ~acc.le -> writeBigInt64BE(buf, v, off)
      [] acc.kind = "Float" /\ acc.le -> writeFloatLE(buf, v, off, acc.bigEndian)
      [] acc.kind = "Float" /\ ~acc.le -> writeFloatBE(buf, v, off, acc.bigEndian)
      [] acc.kind = "Double" /\ acc.le -> writeDoubleLE(buf, v, off, acc.bigEndian)
      [] acc.kind = "Double" /\ ~acc.le -> writeDoubleBE(buf, v, off, acc.bigEndian)

\* the read accessor named by acc, applied to buf
ReadCall(buf, off, acc) ==
    CASE acc.kind = "UInt" /\ acc.le -> readUIntLE(buf, off, acc.w)
      [] acc.kind = "UInt" /\ ~acc.le -> readUIntBE(buf, off, acc.w)
      [] acc.kind = "Int" /\ acc.le -> readIntLE(buf, off, acc.w)
      [] acc.kind = "Int" /\ ~acc.le -> readIntBE(buf, off, acc.w)
      [] acc.kind = "BigUInt" /\ acc.le -> readBigUInt64LE(buf, off)
      [] acc.kind = "BigUInt" /\ ~acc.le -> readBigUInt64BE(buf, off)
      [] acc.kind = "BigInt" /\ acc.le -> readBigInt64LE(buf, off)
      [] acc.kind = "BigInt" /\ ~acc.le -> readBigInt64BE(buf, off)
      [] acc.kind = "Float" /\ acc.le -> readFloatLE(buf, off, acc.bigEndian)
      [] acc.kind = "Float" /\ ~acc.le -> readFloatBE(buf, off, acc.bigEndian)
      [] acc.kind = "Double" /\ acc.le -> readDoubleLE(buf, off, acc.bigEndian)
      [] acc.kind = "Double" /\ ~acc.le -> readDoubleBE(buf, off, acc.bigEndian)

Accessors ==
    {[kind |-> k, w |-> w, le |-> le, bigEndian |-> FALSE] :
        k \in {"UInt", "Int"}, w \in 1..6, le \in BOOLEAN}
    \cup {[kind |-> k, w |-> 8, le |-> le, bigEndian |-> FALSE] :
        k \in {"BigUInt", "BigInt"}, le \in BOOLEAN}
    \cup {[kind |-> "Float", w |-> 4, le |-> le, bigEndian |-> be] :
        le \in BOOLEAN, be \in BOOLEAN}
    \cup {[kind |-> "Double", w |-> 8, le |-> le, bigEndian |-> be] :
        le \in BOOLEAN, be \in BOOLEAN}

IsSigned(acc) == acc.kind \in {"Int", "BigInt"}
IsInteger(acc) == acc.kind \in {"UInt", "Int", "BigUInt", "BigInt"}

\* 2^e for a multiple e of 8, and 2^(e - 1)
Pow2(e) == NumTimes2Pow(NumOfInt(1), e)
HalfPow2(e) == NumTimes2Pow(NumOfInt(128), e - 8)

\* the least and greatest value of an integer accessor of w bytes
LeastOf(acc) ==
    IF IsSigned(acc) THEN NumNeg(HalfPow2(8 * acc.w)) ELSE NumOfInt(0)
GreatestOf(acc) ==
    NumAdd(IF IsSigned(acc) THEN HalfPow2(8 * acc.w) ELSE Pow2(8 * acc.w),
           NumOfInt(-1))

\* values with w distinct bytes: all below 0x80, and all above
LowPattern(w) ==
    [t |-> 0, d |-> [k \in 1..8 |-> IF k <= w THEN 15 * k + 1 ELSE 0]]
HighPattern(w) ==
    [t |-> 0, d |-> [k \in 1..8 |-> IF k <= w THEN 255 - k ELSE 0]]

\* the values an accessor is tried with: the ends of its range and their
\* neighbours, small values, and values whose bytes all differ
ValueInputs(acc) ==
    IF IsInteger(acc)
    THEN {NumAdd(LeastOf(acc), NumOfInt(-1)), LeastOf(acc),
          NumOfInt(-1), NumOfInt(0), NumOfInt(1),
          GreatestOf(acc), NumAdd(GreatestOf(acc), NumOfInt(1)),
          LowPattern(acc.w), NumNeg(LowPattern(acc.w)), HighPattern(acc.w)}
    ELSE {LowPattern(acc.w), HighPattern(acc.w)}

OffsetArgs ==
    {[n |-> n, frac |-> f] : n \in -1..AccessLen, f \in BOOLEAN}

\* three buffers of AccessLen bytes, and one too short for most widths
AccessBuffers ==
    {[k \in 1..AccessLen |-> 238], [k \in 1..AccessLen |-> k],
     [k \in 1..AccessLen |-> 256 - k], <<238, 238>>}

InitAccess ==
    /\ pc = "idle"
    /\ buffer \in AccessBuffers
    /\ accessor \in Accessors
    /\ value \in ValueInputs(accessor)
    /\ thrown = "none"
    /\ target = <<>>
    /\ view = [start |-> 0, length |-> 0]
    /\ orig = [buffer |-> buffer, string |-> <<>>]
    /\ args = [offset |-> [n |-> 0, frac |-> FALSE]]
    /\ ret = 0
    /\ encoding = "utf8"
    /\ string = <<>>
    /\ val = <<>>
    /\ fromOffset = [kind |-> "undefined", n |-> 0, frac |-> FALSE]
    /\ dir = TRUE
    /\ byteOffset = 0
    /\ frac = FALSE
    /\ i = 0
    /\ j = 0
    /\ foundIndex = -1

\* buffer.write<Accessor>(value, offset)
DoWriteNumber ==
    /\ pc = "idle"
    /\ \E off \in OffsetArgs :
          LET r == WriteCall(buffer, value, off, accessor)
          IN /\ buffer' = r.buf
             /\ thrown' = r.thrown
             /\ ret' = r.ret
             /\ args' = [offset |-> off]
    /\ pc' = "wrote"
    /\ UNCHANGED <<value, accessor, target, view, encoding, string, orig,
                   searchVars>>

\* buffer.read<Accessor>(offset)
DoReadNumber ==
    /\ pc = "idle"
    /\ \E off \in OffsetArgs :
          LET r == ReadCall(buffer, off, accessor)
          IN /\ thrown' = r.thrown
             /\ ret' = r.value
             /\ args' = [offset |-> off]
    /\ pc' = "read"
    /\ UNCHANGED <<buffer, value, accessor, target, view, encoding, string,
                   orig, searchVars>>

\* buffer.read<Accessor>(offset) at the offset just written
DoReadBack ==
    /\ pc = "wrote"
    /\ thrown = "none"
    /\ LET r == ReadCall(buffer, args.offset, accessor)
       IN /\ thrown' = r.thrown
          /\ ret' = r.value
    /\ pc' = "readback"
    /\ UNCHANGED <<buffer, value, accessor, target, view, args, encoding,
                   string, orig, searchVars>>

NextAccess ==
    \/ DoWriteNumber
    \/ DoReadNumber
    \/ DoReadBack

SpecAccess == InitAccess /\ [][NextAccess]_vars

(***************************************************************************)
(* Properties of the numeric accessors                                     *)
(***************************************************************************)
\* lo <= v <= hi
NumBetween(lo, v, hi) == ~NumLess(v, lo) /\ ~NumLess(hi, v)

\* the offset is an integer and [offset, offset + w) lies in a buffer of
\* length len
OffsetFits(off, w, len) == ~off.frac /\ 0 <= off.n /\ off.n <= len - w

\* C14: an integer write is accepted iff the value lies in the exact range
\* of its width and signedness (given an offset that fits; a value outside
\* is refused with ERR_OUT_OF_RANGE), and a refused write, for its value
\* or for its offset, leaves every byte of the buffer as it was.
C14_IntegerWriteRangeAndAtomicity ==
    (pc = "wrote" /\ IsInteger(accessor)) =>
        LET inRange == NumBetween(LeastOf(accessor), value,
                                  GreatestOf(accessor))
        IN /\ OffsetFits(args.offset, accessor.w, Len(buffer)) =>
                 (thrown = "none" <=> inRange)
           /\ ~inRange => thrown = "ERR_OUT_OF_RANGE"
           /\ thrown # "none" => buffer = orig.buffer

\* writeUInt32LE(0x100000000) at offset 0 is refused and changes nothing
C14_Witness ==
    /\ pc = "wrote"
    /\ accessor = [kind |-> "UInt", w |-> 4, le |-> TRUE, bigEndian |-> FALSE]
    /\ value = Pow2(32)
    /\ args.offset = [n |-> 0, frac |-> FALSE]
    /\ thrown = "ERR_OUT_OF_RANGE"
    /\ buffer = orig.buffer

\* writeUInt32LE(0xFFFFFFFF) at offset 0 succeeds
C14_WitnessAccepted ==
    /\ pc = "wrote"
    /\ accessor = [kind |-> "UInt", w |-> 4, le |-> TRUE, bigEndian |-> FALSE]
    /\ value = HexLiteral(Fs(8))
    /\ args.offset = [n |-> 0, frac |-> FALSE]
    /\ thrown = "none"
    /\ SubSeq(buffer, 1, 4) = <<255, 255, 255, 255>>

RangeErrors == {"ERR_OUT_OF_RANGE", "ERR_BUFFER_OUT_OF_BOUNDS"}

\* C15: a numeric read, or a numeric write of an acceptable value, of
\* width w on a buffer of length L succeeds iff the offset is an integer
\* with 0 <= offset <= L - w; every other offset raises a range error.
C15_AccessorOffsetBounds ==
    LET fits == OffsetFits(args.offset, accessor.w, Len(buffer))
        valueOk == IsInteger(accessor) =>
                       NumBetween(LeastOf(accessor), value,
                                  GreatestOf(accessor))
    IN /\ pc = "read" =>
             /\ thrown = "none" <=> fits
             /\ ~fits => thrown \in RangeErrors
       /\ pc = "wrote" =>
             /\ valueOk => (thrown = "none" <=> fits)
             /\ ~fits => thrown \in RangeErrors

\* readUInt8 at offset == length raises
C15_Witness ==
    /\ pc = "read"
    /\ accessor.kind = "UInt" /\ accessor.w = 1
    /\ args.offset = [n |-> Len(buffer), frac |-> FALSE]
    /\ thrown = "ERR_OUT_OF_RANGE"

\* readUInt8 at offset == length - 1 succeeds
C15_WitnessLastByte ==
    /\ pc = "read"
    /\ accessor.kind = "UInt" /\ accessor.w = 1
    /\ args.offset = [n |-> Len(buffer) - 1, frac |-> FALSE]
    /\ thrown = "none"
    /\ ret = NumOfInt(buffer[Len(buffer)])

\* C16: writing an in-range integer with an accessor of 1..6 or 8 bytes and
\* reading it back with the matching accessor at the same offset returns
\* the value written.
C16_IntegerWriteReadRoundTrip ==
    (pc = "readback" /\ IsInteger(accessor)) =>
        /\ thrown = "none"
        /\ ret = value

\* writeBigUInt64BE of 2^64 - 1 read back at offset 1
C16_Witness ==
    /\ pc = "readback"
    /\ accessor.kind = "BigUInt" /\ ~accessor.le
    /\ value = HexLiteral(Fs(16))
    /\ args.offset.n = 1
    /\ ret = value

-----------------------------------------------------------------------------
(***************************************************************************)
(* copy                                                                    *)
(***************************************************************************)
\* toInteger(n, defaultVal) for an integer n or undefined (unary plus of
\* undefined is NaN)
toInteger(n, defaultVal) == IF n = Undefined THEN defaultVal ELSE n

\* Uint8Array.prototype.set.call(target, source, offset)
TypedArraySet(tgt, source, offset) ==
    IF Len(source) + offset > Len(tgt)
    THEN [thrown |-> "RangeError", target |-> tgt]
    ELSE [thrown |-> "none", target |-> Stores(tgt, offset, source)]

\* new Uint8Array(source.buffer, source.byteOffset + start, length)
TypedArrayWindow(source, start, length) ==
    IF length < 0 \/ start + length > Len(source)
    THEN [thrown |-> "RangeError", bytes |-> <<>>]
    ELSE [thrown |-> "none", bytes |-> SubSeq(source, start + 1, start + length)]

_copyActual(source, tgt, targetStart, sourceStart, sourceEnd) ==
    LET sourceEnd1 == IF sourceEnd - sourceStart > Len(tgt) - targetStart
                      THEN sourceStart + Len(tgt) - targetStart
                      ELSE sourceEnd
        nb0 == sourceEnd1 - sourceStart
        sourceLen == Len(source) - sourceStart
        nb == IF nb0 > sourceLen THEN sourceLen ELSE nb0
        window == IF sourceStart # 0 \/ sourceEnd1 < Len(source)
                  THEN TypedArrayWindow(source, sourceStart, nb)
                  ELSE [thrown |-> "none", bytes |-> source]
        set == TypedArraySet(tgt, window.bytes, targetStart)
    IN IF window.thrown # "none"
       THEN [thrown |-> window.thrown, target |-> tgt, ret |-> Undefined]
       ELSE IF set.thrown # "none"
       THEN [thrown |-> set.thrown, target |-> tgt, ret |-> Undefined]
       ELSE [thrown |-> "none", target |-> set.target, ret |-> nb]

_copy(source, tgt, targetStart, sourceStart, sourceEnd) ==
    LET tS == IF targetStart = Undefined THEN 0 ELSE toInteger(targetStart, 0)
        sS == IF sourceStart = Undefined THEN 0 ELSE toInteger(sourceStart, 0)
        sE == IF sourceEnd = Undefined THEN Len(source)
              ELSE toInteger(sourceEnd, 0)
        fail == [thrown |-> "ERR_OUT_OF_RANGE", target |-> tgt,
                 ret |-> Undefined]
    IN IF targetStart # Undefined /\ tS < 0 THEN fail
       ELSE IF sourceStart # Undefined /\ (sS < 0 \/ sS > Len(source)) THEN fail
       ELSE IF sourceEnd # Undefined /\ sE < 0 THEN fail
       ELSE IF tS >= Len(tgt) \/ sS >= sE
       THEN [thrown |-> "none", target |-> tgt, ret |-> 0]
       ELSE _copyActual(source, tgt, tS, sS, sE)

\* Buffer.prototype.copy
copy(source, tgt, targetStart, sourceStart, sourceEnd) ==
    _copy(source, tgt, targetStart, sourceStart, sourceEnd)

CopyBytes == {1, 2}

InitCopy ==
    /\ pc = "idle"
    /\ buffer \in SeqsUpTo(CopyBytes, MaxBufLen)
    /\ target \in {[k \in 1..n |-> 238] : n \in 0..MaxBufLen}
    /\ orig = [buffer |-> buffer, string |-> <<>>, target |-> target]
    /\ value = 0
    /\ accessor = [kind |-> "none"]
    /\ thrown = "none"
    /\ view = [start |-> 0, length |-> 0]
    /\ args = [targetStart |-> 0, sourceStart |-> 0, sourceEnd |-> 0]
    /\ ret = 0
    /\ encoding = "utf8"
    /\ string = <<>>
    /\ val = <<>>
    /\ fromOffset = [kind |-> "undefined", n |-> 0, frac |-> FALSE]
    /\ dir = TRUE
    /\ byteOffset = 0
    /\ frac = FALSE
    /\ i = 0
    /\ j = 0
    /\ foundIndex = -1

\* a non-negative integer up to n + 1, or undefined
IndexArgs(n) == 0..(n + 1) \cup {Undefined}

\* ret = buffer.copy(target, targetStart, sourceStart, sourceEnd)
DoCopy ==
    /\ pc = "idle"
    /\ \E tS \in IndexArgs(Len(target)), sS \in IndexArgs(Len(buffer)),
          sE \in IndexArgs(Len(buffer)) :
          LET r == copy(buffer, target, tS, sS, sE)
          IN /\ target' = r.target
             /\ thrown' = r.thrown
             /\ ret' = r.ret
             /\ args' = [targetStart |-> tS, sourceStart |-> sS,
                         sourceEnd |-> sE]
    /\ pc' = "copied"
    /\ UNCHANGED <<buffer, value, accessor, view, encoding, string, orig,
                   searchVars>>

NextCopy == DoCopy
SpecCopy == InitCopy /\ [][NextCopy]_vars

Min3(a, b, c) == Min(Min(a, b), c)

\* C17: copy with non-negative integer arguments never raises; it copies
\* n = max(0, min(sourceEnd - sourceStart, source.length - sourceStart,
\* target.length - targetStart)) bytes from source[sourceStart ..] to
\* target[targetStart ..], returns n and leaves the rest of target alone.
C17_CopyClampsAndCounts ==
    pc = "copied" =>
        LET tS == IF args.targetStart = Undefined THEN 0 ELSE args.targetStart
            sS == IF args.sourceStart = Undefined THEN 0 ELSE args.sourceStart
            sE == IF args.sourceEnd = Undefined THEN Len(buffer)
                  ELSE args.sourceEnd
            n == Max(0, Min3(sE - sS, Len(buffer) - sS, Len(target) - tS))
        IN /\ thrown = "none"
           /\ ret = n
           /\ Len(target) = Len(orig.target)
           /\ \A k \in 1..Len(target) :
                 target[k] = IF k > tS /\ k <= tS + n
                             THEN buffer[sS + (k - tS)]
                             ELSE orig.target[k]

(***************************************************************************)
(* compare                                                                 *)
(***************************************************************************)

CompareLen == 2

normalizeCompareValIgnoringLength(v, aLen, bLen) ==
    IF v = 0 THEN 0 ELSE IF v > 0 THEN 1 ELSE -1

normalizeCompareVal(v, aLen, bLen) ==
    IF v = 0
    THEN IF aLen > bLen THEN 1
         ELSE IF aLen < bLen THEN -1
         ELSE v
    ELSE IF v > 0 THEN 1 ELSE -1

\* the loop shared by _compare and compareOffset, from index k (0-based)
RECURSIVE compareLoop(_, _, _, _, _, _, _, _)
compareLoop(source, tgt, targetStart, sourceStart, k, len, sourceLen, targetLen) ==
    IF k = len
    THEN normalizeCompareVal(0, sourceLen, targetLen)
    ELSE LET a == source[k + sourceStart + 1]
             b == tgt[k + targetStart + 1]
         IN IF a # b
            THEN IF a > b THEN 1 ELSE -1
            ELSE compareLoop(source, tgt, targetStart, sourceStart, k + 1,
                             len, sourceLen, targetLen)

_compare(source, tgt) ==
    LET sourceLen == Len(source)
        targetLen == Len(tgt)
        len == Min(sourceLen, targetLen)
    IN compareLoop(source, tgt, 0, 0, 0, len, sourceLen, targetLen)

compareOffset(source, tgt, targetStart, sourceStart, targetEnd, sourceEnd) ==
    LET sourceLen == sourceEnd - sourceStart
        targetLen == targetEnd - targetStart
        len == Min(Min(sourceLen, targetLen), Len(source) - sourceStart)
    IN compareLoop(source, tgt, targetStart, sourceStart, 0, len,
                   sourceLen, targetLen)

\* the error validateInteger raises for a number (an integer or NaN), or "none"
validateInteger(v, min, max) ==
    IF v = NaN THEN "ERR_OUT_OF_RANGE"
    ELSE IF v < min \/ v > max THEN "ERR_OUT_OF_RANGE"
    ELSE "none"

\* Number.MAX_SAFE_INTEGER is 2^53 - 1; the largest integer of the model stands
\* for it, and every argument drawn below is far smaller than either
MAX_SAFE_INTEGER == 2147483647

validateOffset(v, min, max) == validateInteger(v, min, max)

\* Buffer.compare(buf1, buf2); same is buf1 === buf2
compareStatic(buf1, buf2, same) ==
    IF same THEN 0 ELSE _compare(buf1, buf2)

\* this.compare(target, targetStart, targetEnd, sourceStart, sourceEnd) called
\* with argc arguments; the result is [thrown, ret]
compare(this, tgt, argc, targetStart, targetEnd, sourceStart, sourceEnd) ==
    IF argc = 1 THEN [thrown |-> "none", ret |-> _compare(this, tgt)]
    ELSE
    LET e1 == IF targetStart = Undefined THEN "none"
              ELSE validateOffset(targetStart, 0, MAX_SAFE_INTEGER)
        tS == IF targetStart = Undefined THEN 0 ELSE targetStart
        e2 == IF targetEnd = Undefined THEN "none"
              ELSE validateOffset(targetEnd, 0, Len(tgt))
        tE == IF targetEnd = Undefined THEN Len(tgt) ELSE targetEnd
        e3 == IF sourceStart = Undefined THEN "none"
              ELSE validateOffset(sourceStart, 0, MAX_SAFE_INTEGER)
        sS == IF sourceStart = Undefined THEN 0 ELSE sourceStart
        e4 == IF sourceEnd = Undefined THEN "none"
              ELSE validateOffset(sourceEnd, 0, Len(this))
        sE == IF sourceEnd = Undefined THEN Len(this) ELSE sourceEnd
    IN IF e1 # "none" THEN [thrown |-> e1, ret |-> Undefined]
       ELSE IF e2 # "none" THEN [thrown |-> e2, ret |-> Undefined]
       ELSE IF e3 # "none" THEN [thrown |-> e3, ret |-> Undefined]
       ELSE IF e4 # "none" THEN [thrown |-> e4, ret |-> Undefined]
       ELSE IF sS >= sE
            THEN [thrown |-> "none", ret |-> IF tS >= tE THEN 0 ELSE -1]
       ELSE IF tS >= tE THEN [thrown |-> "none", ret |-> 1]
       ELSE [thrown |-> "none",
             ret |-> compareOffset(this, tgt, tS, sS, tE, sE)]

CompareBytes == {1, 200}

InitCompare ==
    /\ pc = "idle"
    /\ buffer \in SeqsUpTo(CompareBytes, CompareLen)
    /\ target \in SeqsUpTo(CompareBytes, CompareLen)
    /\ orig = [buffer |-> buffer, string |-> <<>>, target |-> target]
    /\ value = 0
    /\ accessor = [kind |-> "none"]
    /\ thrown = "none"
    /\ view = [start |-> 0, length |-> 0]
    /\ args = [form |-> "none"]
    /\ ret = 0
    /\ encoding = "utf8"
    /\ string = <<>>
    /\ val = <<>>
    /\ fromOffset = [kind |-> "undefined", n |-> 0, frac |-> FALSE]
    /\ dir = TRUE
    /\ byteOffset = 0
    /\ frac = FALSE
    /\ i = 0
    /\ j = 0
    /\ foundIndex = -1

\* a non-negative integer up to n + 1, undefined, or NaN
CompareArgs(n) == IndexArgs(n) \cup {NaN}

\* ret = buffer.compare(target) or
\* ret = buffer.compare(target, targetStart, targetEnd, sourceStart, sourceEnd)
DoCompare ==
    /\ pc = "idle"
    /\ \E argc \in {1, 5} :
       \E tS \in IF argc = 1 THEN {Undefined} ELSE CompareArgs(Len(target)),
          tE \in IF argc = 1 THEN {Undefined} ELSE CompareArgs(Len(target)),
          sS \in IF argc = 1 THEN {Undefined} ELSE CompareArgs(Len(buffer)),
          sE \in IF argc = 1 THEN {Undefined} ELSE CompareArgs(Len(buffer)) :
          LET r == compare(buffer, target, argc, tS, tE, sS, sE)
          IN /\ thrown' = r.thrown
             /\ ret' = r.ret
             /\ args' = [form |-> "method", argc |-> argc,
                         targetStart |-> tS, targetEnd |-> tE,
                         sourceStart |-> sS, sourceEnd |-> sE]
    /\ pc' = "compared"
    /\ UNCHANGED <<buffer, target, value, accessor, view, encoding, string,
                   orig, searchVars>>

\* ret = Buffer.compare(buffer, target), or Buffer.compare(buffer, buffer)
DoStaticCompare ==
    /\ pc = "idle"
    /\ \E same \in BOOLEAN :
          /\ ret' = compareStatic(buffer, IF same THEN buffer ELSE target,
                                  same)
          /\ args' = [form |-> IF same THEN "self" ELSE "static", argc |-> 2,
                      targetStart |-> Undefined, targetEnd |-> Undefined,
                      sourceStart |-> Undefined, sourceEnd |-> Undefined]
    /\ thrown' = "none"
    /\ pc' = "compared"
    /\ UNCHANGED <<buffer, target, value, accessor, view, encoding, string,
                   orig, searchVars>>

NextCompare == DoCompare \/ DoStaticCompare
SpecCompare == InitCompare /\ [][NextCompare]_vars

\* the bytes of b from index from (inclusive) to index to (exclusive)
Range(b, from, to) == IF from >= to THEN <<>> ELSE SubSeq(b, from + 1, to)

\* the lexicographic order of two sequences of unsigned bytes
Lexicographic(A, B) ==
    LET differ == {k \in 1..Min(Len(A), Len(B)) : A[k] # B[k]}
    IN IF differ # {}
       THEN LET k == CHOOSE m \in differ : \A n \in differ : m <= n
            IN IF A[k] > B[k] THEN 1 ELSE -1
       ELSE IF Len(A) > Len(B) THEN 1
       ELSE IF Len(A) < Len(B) THEN -1
       ELSE 0

\* the two sequences a finished comparison was about
ComparedSource ==
    IF args.form = "method" /\ args.argc = 5
    THEN Range(buffer,
               IF args.sourceStart = Undefined THEN 0 ELSE args.sourceStart,
               IF args.sourceEnd = Undefined THEN Len(buffer)
               ELSE args.sourceEnd)
    ELSE buffer

ComparedTarget ==
    IF args.form = "method" /\ args.argc = 5
    THEN Range(target,
               IF args.targetStart = Undefined THEN 0 ELSE args.targetStart,
               IF args.targetEnd = Undefined THEN Len(target)
               ELSE args.targetEnd)
    ELSE IF args.form = "self" THEN buffer
    ELSE target

\* C18: a comparison that returns yields the lexicographic order of the two
\* (optionally range-restricted) sequences of unsigned bytes as -1, 0 or 1:
\* the first differing byte decides, a proper prefix is less, and the result
\* is 0 exactly when the sequences have the same length and the same bytes.
C18_CompareLexicographic ==
    (pc = "compared" /\ thrown = "none") =>
        /\ ret \in {-1, 0, 1}
        /\ ret = Lexicographic(ComparedSource, ComparedTarget)
        /\ (ret = 0) <=> (ComparedSource = ComparedTarget)

\* a ranged comparison decided by length: <<1>> is a proper prefix of <<1, 200>>
C18_Witness ==
    /\ pc = "compared"
    /\ thrown = "none"
    /\ args.form = "method"
    /\ args.argc = 5
    /\ ComparedSource = <<1>>
    /\ ComparedTarget = <<1, 200>>
    /\ ret = -1

(***************************************************************************)
(* fill                                                                    *)
(***************************************************************************)

FillLen == 5

\* an encoding argument that was not given
UndefinedEncoding == "(undefined)"

\* normalizeEncoding applied to an argument that may be undefined
normalizeEncodingArg(enc) ==
    IF enc = UndefinedEncoding THEN "utf8" ELSE normalizeEncoding(enc)

\* Buffer.from(string, encoding) where the encoding may be undefined or ""
fromStringArg(str, enc) ==
    fromString(str, IF enc = UndefinedEncoding \/ enc = "" THEN "utf8"
                    ELSE enc)

\* the element store buf[k] = v of a Uint8Array: the value modulo 256, and
\* undefined (NaN) stored as 0
StoreByte(buf, k, v) ==
    IF k < 0 \/ k >= Len(buf) THEN buf
    ELSE [buf EXCEPT ![k + 1] = IF v = Undefined THEN 0 ELSE v % 256]

\* Uint8Array.prototype.fill.call(buf, value, offset, end) with
\* 0 <= offset <= end <= buf.length
TypedArrayFill(buf, v, offset, end) ==
    [k \in 1..Len(buf) |-> IF k > offset /\ k <= end THEN v % 256 ELSE buf[k]]

\* for (let i = 0; i !== fillLength; ++i) buf[offset++] = value[i % value.length]
\* where value is the receiver itself when aliased, else a separate pattern;
\* the offset argument here is the offset before the loop
RECURSIVE fillLoop(_, _, _, _, _, _)
fillLoop(buf, pattern, aliased, offset, k, fillLength) ==
    IF k = fillLength THEN buf
    ELSE LET v == IF aliased THEN buf ELSE pattern
             e == IF Len(v) = 0 THEN Undefined ELSE v[(k % Len(v)) + 1]
         IN fillLoop(StoreByte(buf, offset + k, e), pattern, aliased,
                     offset, k + 1, fillLength)

\* _fill(buf, value, offset, end, encoding).  The value is a record: kind
\* "number" (n), "string" (str), "buffer" (bytes of a separate Buffer or
\* Uint8Array) or "self" (the receiver itself).  offset and end are integers,
\* NaN or undefined.  The result is [buf, thrown].
_fill(buf, v, offsetArg, endArg, encodingArg) ==
    LET isString == v.kind = "string"
        normalizedEncoding ==
            IF isString /\ offsetArg # Undefined
            THEN normalizeEncodingArg(encodingArg)
            ELSE "utf8"
        \* the value after the string fast paths: a number or not
        code == IF isString /\ Len(v.str) = 1 THEN v.str[1] ELSE 0
        asNumber ==
            \/ v.kind = "number"
            \/ isString /\ Len(v.str) = 0
            \/ isString /\ Len(v.str) = 1 /\ normalizedEncoding = "utf8"
                        /\ code < 128
            \/ isString /\ Len(v.str) = 1 /\ normalizedEncoding = "latin1"
        number == IF v.kind = "number" THEN v.n ELSE code
        enc == IF isString /\ offsetArg # Undefined THEN encodingArg
               ELSE UndefinedEncoding
        e1 == IF offsetArg = Undefined THEN "none"
              ELSE validateOffset(offsetArg, 0, MAX_SAFE_INTEGER)
        e2 == IF offsetArg = Undefined \/ endArg = Undefined THEN "none"
              ELSE validateOffset(endArg, 0, Len(buf))
        offset == IF offsetArg = Undefined THEN 0 ELSE offsetArg
        end == IF offsetArg = Undefined \/ endArg = Undefined THEN Len(buf)
               ELSE endArg
        byteLen == Len(buf)
        fillLength == end - offset
    IN IF isString /\ normalizedEncoding = "undefined"
       THEN [buf |-> buf, thrown |-> "ERR_UNKNOWN_ENCODING"]
       ELSE IF e1 # "none" THEN [buf |-> buf, thrown |-> e1]
       ELSE IF e2 # "none" THEN [buf |-> buf, thrown |-> e2]
       ELSE IF offsetArg # Undefined /\ offset >= end
       THEN [buf |-> buf, thrown |-> "none"]
       ELSE IF asNumber
       THEN IF offset > end \/ fillLength + offset > byteLen
            THEN [buf |-> buf, thrown |-> "ERR_BUFFER_OUT_OF_BOUNDS"]
            ELSE [buf |-> TypedArrayFill(buf, number, offset, end),
                  thrown |-> "none"]
       ELSE LET filled ==
                    {fillLoop(buf, pattern, v.kind = "self", offset, 0,
                              fillLength) :
                        pattern \in {IF isString
                                     THEN fromStringArg(v.str, enc)
                                     ELSE IF v.kind = "buffer" THEN v.bytes
                                     ELSE <<>>}}
            IN [buf |-> CHOOSE b \in filled : TRUE, thrown |-> "none"]

fill(this, v, offset, end, enc) == _fill(this, v, offset, end, enc)

FillBuffer == <<11, 12, 13, 14, 15, 16, 17, 18>>

\* 'a' (also a hex digit), U+00E9, U+20AC
FillUnits == {97, 233, 8364}

FillEncodings ==
    {UndefinedEncoding, "utf8", "latin1", "utf16le", "hex", "ascii", "nope"}

FillValues ==
    {[kind |-> "number", n |-> n, str |-> <<>>, bytes |-> <<>>] :
        n \in {0, 65, 300, -1}}
    \cup {[kind |-> "string", n |-> 0, str |-> s, bytes |-> <<>>] :
             s \in SeqsUpTo(FillUnits, 2)}
    \cup {[kind |-> "buffer", n |-> 0, str |-> <<>>, bytes |-> b] :
             b \in {<<>>, <<1>>, <<1, 2>>, <<1, 2, 3>>}}
    \cup {[kind |-> "self", n |-> 0, str |-> <<>>, bytes |-> <<>>]}

InitFill ==
    /\ pc = "idle"
    /\ buffer \in {SubSeq(FillBuffer, 1, n) : n \in 0..FillLen}
    /\ orig = [buffer |-> buffer, string |-> <<>>, target |-> <<>>,
               first |-> buffer]
    /\ target = <<>>
    /\ value = 0
    /\ accessor = [kind |-> "none"]
    /\ thrown = "none"
    /\ view = [start |-> 0, length |-> 0]
    /\ args = [form |-> "none"]
    /\ ret = 0
    /\ encoding = UndefinedEncoding
    /\ string = <<>>
    /\ val = <<>>
    /\ fromOffset = [kind |-> "undefined", n |-> 0, frac |-> FALSE]
    /\ dir = TRUE
    /\ byteOffset = 0
    /\ frac = FALSE
    /\ i = 0
    /\ j = 0
    /\ foundIndex = -1

\* buffer.fill(value, offset, end, encoding)
DoFill ==
    /\ pc = "idle"
    /\ \E v \in FillValues, offset \in IndexArgs(Len(buffer)),
          end \in IndexArgs(Len(buffer)) :
       \E enc \in IF v.kind = "string" THEN FillEncodings
                  ELSE {UndefinedEncoding} :
          \E r \in {fill(buffer, v, offset, end, enc)} :
             /\ buffer' = r.buf
             /\ thrown' = r.thrown
             /\ encoding' = enc
             /\ args' = [form |-> "fill", value |-> v, offset |-> offset,
                         end |-> end]
    /\ pc' = "filled"
    /\ UNCHANGED <<target, value, accessor, view, ret, string, orig,
                   searchVars>>

\* the identical fill once more
DoFillAgain ==
    /\ pc = "filled"
    /\ thrown = "none"
    /\ \E r \in {fill(buffer, args.value, args.offset, args.end, encoding)} :
          /\ buffer' = r.buf
          /\ thrown' = r.thrown
    /\ orig' = [orig EXCEPT !.first = buffer]
    /\ pc' = "refilled"
    /\ UNCHANGED <<target, value, accessor, view, ret, string, encoding, args,
                   searchVars>>

NextFill == DoFill \/ DoFillAgain
SpecFill == InitFill /\ [][NextFill]_vars

\* the pattern p of a finished fill: the single byte of a number, the encoded
\* bytes of a string, the given bytes (those of the receiver before the call
\* when the receiver itself was given)
FillPattern ==
    LET v == args.value
    IN CASE v.kind = "number" -> <<v.n % 256>>
         [] v.kind = "string" -> fromStringArg(v.str, encoding)
         [] v.kind = "buffer" -> v.bytes
         [] v.kind = "self" -> orig.buffer

FillEnd == IF args.end = Undefined THEN Len(orig.buffer) ELSE args.end

\* a fill the claim is about: a recognized encoding, a non-empty pattern and
\* 0 <= start < end <= length
FillCovered ==
    /\ pc \in {"filled", "refilled"}
    /\ args.offset # Undefined
    /\ 0 <= args.offset
    /\ args.offset < FillEnd
    /\ FillEnd <= Len(orig.buffer)
    /\ args.value.kind = "string" =>
          normalizeEncodingArg(encoding) # "undefined"
    /\ Len(FillPattern) > 0

\* C19: fill(value, start, end, encoding) with 0 <= start < end <= length sets
\* buf[i] = p[(i - start) mod |p|] for start <= i < end, p being the single
\* byte of a number or the encoded bytes of the string or the given bytes,
\* leaves every other byte as it was, and a second identical fill changes
\* nothing.
C19_FillCyclicPattern ==
    FillCovered =>
        LET p == FillPattern
        IN /\ thrown = "none"
           /\ Len(buffer) = Len(orig.buffer)
           /\ \A k \in 0..(Len(buffer) - 1) :
                 buffer[k + 1] =
                    IF args.offset <= k /\ k < FillEnd
                    THEN p[((k - args.offset) % Len(p)) + 1]
                    ELSE orig.buffer[k + 1]
           /\ pc = "refilled" => buffer = orig.first

(***************************************************************************)
(* subarray and slice: two Buffer objects over one ArrayBuffer             *)
(***************************************************************************)

ViewLen == 4
MaxOps == 2

\* In this part `buffer` holds the bytes of the one ArrayBuffer, and a Buffer
\* object is a record [buffer, byteOffset, length] naming its window of it.
TheArrayBuffer == "ArrayBuffer#1"

\* new FastBuffer(arrayBuffer, byteOffset, length)
FastBuffer(ab, off, length) ==
    [buffer |-> ab, byteOffset |-> off, length |-> length]

\* the elements obj[0 .. obj.length - 1] given the ArrayBuffer's bytes
Contents(bytes, obj) ==
    SubSeq(bytes, obj.byteOffset + 1, obj.byteOffset + obj.length)

\* the ArrayBuffer's bytes once obj's elements have become elems
Splice(bytes, obj, elems) ==
    [k \in 1..Len(bytes) |->
        IF k > obj.byteOffset /\ k <= obj.byteOffset + obj.length
        THEN elems[k - obj.byteOffset]
        ELSE bytes[k]]

\* an index argument: an integer, NaN or undefined
IntArg(n) == [kind |-> "int", n |-> n]
NaNArg == [kind |-> "nan", n |-> 0]
UndefinedArg == [kind |-> "undefined", n |-> 0]

\* a number with a fractional part: m / 2 for an odd m
HalfArg(m) == [kind |-> "half", n |-> m]

\* rounding toward minus infinity
MathFloor(offset) ==
    IF offset.kind = "half" THEN offset.n \div 2 ELSE offset.n

\* Math.trunc(offset) of a number
MathTrunc(offset) ==
    IF offset.kind = "half"
    THEN IF offset.n < 0 THEN -((-offset.n) \div 2) ELSE offset.n \div 2
    ELSE offset.n

\* adjustOffset without the branch for negative offsets
adjustOffsetNoNegative(offset, length) ==
    IF offset.kind \in {"nan", "undefined"} THEN 0
    ELSE LET n == MathTrunc(offset)
         IN IF n = 0 THEN 0
            ELSE IF n < 0 THEN 0
            ELSE IF n < length THEN n
            ELSE length

\* Math.trunc of undefined is NaN, which fails every comparison
adjustOffset(offset, length) ==
    IF offset.kind \in {"nan", "undefined"} THEN 0
    ELSE LET n == MathTrunc(offset)
         IN IF n = 0 THEN 0
            ELSE IF n < 0
                 THEN IF n + length > 0 THEN n + length ELSE 0
            ELSE IF n < length THEN n
            ELSE length

\* subarray placing the new view relative to the ArrayBuffer, not to this
subarrayIgnoringByteOffset(this, start, end) ==
    LET srcLength == this.length
        s == adjustOffset(start, srcLength)
        e == IF end.kind # "undefined" THEN adjustOffset(end, srcLength)
             ELSE srcLength
        newLength == IF e > s THEN e - s ELSE 0
    IN FastBuffer(this.buffer, s, newLength)

subarray(this, start, end) ==
    LET srcLength == this.length
        s == adjustOffset(start, srcLength)
        e == IF end.kind # "undefined" THEN adjustOffset(end, srcLength)
             ELSE srcLength
        newLength == IF e > s THEN e - s ELSE 0
    IN FastBuffer(this.buffer, this.byteOffset + s, newLength)

slice(this, start, end) == subarray(this, start, end)

\* swap(b, n, m) on elements n and m (0-based)
swap(b, n, m) == [b EXCEPT ![n + 1] = b[m + 1], ![m + 1] = b[n + 1]]

RECURSIVE swap16Loop(_, _)
swap16Loop(b, k) ==
    IF k < Len(b) THEN swap16Loop(swap(b, k, k + 1), k + 2) ELSE b

\* swap32 exchanging only the outer bytes of each group
RECURSIVE swap32LoopOuterOnly(_, _)
swap32LoopOuterOnly(b, k) ==
    IF k < Len(b) THEN swap32LoopOuterOnly(swap(b, k, k + 3), k + 4) ELSE b

RECURSIVE swap32Loop(_, _)
swap32Loop(b, k) ==
    IF k < Len(b)
    THEN swap32Loop(swap(swap(b, k, k + 3), k + 1, k + 2), k + 4)
    ELSE b

RECURSIVE swap64Loop(_, _)
swap64Loop(b, k) ==
    IF k < Len(b)
    THEN swap64Loop(swap(swap(swap(swap(b, k, k + 7), k + 1, k + 6),
                              k + 2, k + 5), k + 3, k + 4), k + 8)
    ELSE b

swap16(this) ==
    IF Len(this) % 2 # 0
    THEN [buf |-> this, thrown |-> "ERR_INVALID_BUFFER_SIZE"]
    ELSE [buf |-> swap16Loop(this, 0), thrown |-> "none"]

swap32(this) ==
    IF Len(this) % 4 # 0
    THEN [buf |-> this, thrown |-> "ERR_INVALID_BUFFER_SIZE"]
    ELSE [buf |-> swap32Loop(this, 0), thrown |-> "none"]

swap64(this) ==
    IF Len(this) % 8 # 0
    THEN [buf |-> this, thrown |-> "ERR_INVALID_BUFFER_SIZE"]
    ELSE [buf |-> swap64Loop(this, 0), thrown |-> "none"]

ViewArgs ==
    {IntArg(n) : n \in (-ViewLen - 1)..(ViewLen + 1)}
    \cup {NaNArg, UndefinedArg}

InitView ==
    /\ pc = "idle"
    /\ buffer = [k \in 1..(ViewLen + 2) |-> 10 + k]
    /\ view = [buf |-> FastBuffer(TheArrayBuffer, 1, ViewLen),
               v |-> FastBuffer(TheArrayBuffer, 1, ViewLen),
               start |-> UndefinedArg]
    /\ orig = [buffer |-> buffer, string |-> <<>>, target |-> <<>>,
               bufLength |-> ViewLen, vLength |-> ViewLen]
    /\ target = <<>>
    /\ value = 0
    /\ accessor = [kind |-> "none"]
    /\ thrown = "none"
    /\ args = [ops |-> 0, op |-> "none", through |-> "none"]
    /\ ret = 0
    /\ encoding = UndefinedEncoding
    /\ string = <<>>
    /\ val = <<>>
    /\ fromOffset = [kind |-> "undefined", n |-> 0, frac |-> FALSE]
    /\ dir = TRUE
    /\ byteOffset = 0
    /\ frac = FALSE
    /\ i = 0
    /\ j = 0
    /\ foundIndex = -1

\* v = buf.subarray(start, end), or v = buf.slice(start, end)
DoSubarray ==
    /\ pc = "idle"
    /\ \E start \in ViewArgs, end \in ViewArgs, viaSlice \in BOOLEAN :
          LET v == IF viaSlice THEN slice(view.buf, start, end)
                   ELSE subarray(view.buf, start, end)
          IN /\ view' = [view EXCEPT !.v = v, !.start = start]
             /\ orig' = [orig EXCEPT !.vLength = v.length]
    /\ pc' = "view"
    /\ UNCHANGED <<buffer, target, value, accessor, thrown, ret, encoding,
                   string, args, searchVars>>

\* the two objects an operation can go through
Through(name) == IF name = "buf" THEN view.buf ELSE view.v

\* the state after an operation through the named object that left it with
\* the elements elems
Applied(op, name, elems, err) ==
    /\ buffer' = Splice(buffer, Through(name), elems)
    /\ thrown' = err
    /\ args' = [ops |-> args.ops + 1, op |-> op, through |-> name]
    /\ UNCHANGED <<pc, target, value, accessor, view, ret, encoding, string,
                   orig, searchVars>>

CanOperate == pc = "view" /\ args.ops < MaxOps

\* obj[k] = b
DoSetByte ==
    /\ CanOperate
    /\ \E name \in {"buf", "v"}, k \in {0, ViewLen - 1}, b \in {300} :
          Applied("set", name,
                  StoreByte(Contents(buffer, Through(name)), k, b), "none")

ViewAccessors ==
    {[kind |-> "UInt", w |-> 2, le |-> TRUE, bigEndian |-> FALSE],
     [kind |-> "Int", w |-> 3, le |-> FALSE, bigEndian |-> FALSE]}

\* obj.write<Accessor>(value, offset)
DoWriteThrough ==
    /\ CanOperate
    /\ \E name \in {"buf", "v"}, acc \in ViewAccessors, off \in {0, 1} :
          \E r \in {WriteCall(Contents(buffer, Through(name)),
                                HighPattern(acc.w),
                                [n |-> off, frac |-> FALSE], acc)} :
             Applied("write", name, r.buf, r.thrown)

ViewFillValues ==
    {[kind |-> "number", n |-> 170, str |-> <<>>, bytes |-> <<>>],
     [kind |-> "string", n |-> 0, str |-> <<233, 97>>, bytes |-> <<>>]}

\* obj.fill(value, offset)
DoFillThrough ==
    /\ CanOperate
    /\ \E name \in {"buf", "v"}, v \in ViewFillValues,
          offset \in {1, Undefined} :
          \E r \in {fill(Contents(buffer, Through(name)), v, offset,
                           Undefined, UndefinedEncoding)} :
             Applied("fill", name, r.buf, r.thrown)

\* from.copy(to, targetStart, sourceStart): both over the same ArrayBuffer
DoCopyThrough ==
    /\ CanOperate
    /\ \E from \in {"buf", "v"}, to \in {"buf", "v"},
          tS \in {0, Undefined}, sS \in {1} :
          \E r \in {copy(Contents(buffer, Through(from)),
                           Contents(buffer, Through(to)), tS, sS,
                           Undefined)} :
             Applied("copy", to, r.target, r.thrown)

\* obj.swap16(), obj.swap32(), obj.swap64()
DoSwapThrough ==
    /\ CanOperate
    /\ \E name \in {"buf", "v"}, bits \in {16, 32, 64} :
          \E b \in {Contents(buffer, Through(name))} :
          \E r \in {CASE bits = 16 -> swap16(b)
                       [] bits = 32 -> swap32(b)
                       [] bits = 64 -> swap64(b)} :
             Applied("swap", name, r.buf, r.thrown)

NextView ==
    \/ DoSubarray
    \/ DoSetByte
    \/ DoWriteThrough
    \/ DoFillThrough
    \/ DoCopyThrough
    \/ DoSwapThrough

SpecView == InitView /\ [][NextView]_vars

\* obj[k] as a read of the ArrayBuffer; undefined outside obj
Element(obj, k) ==
    IF k >= 0 /\ k < obj.length THEN buffer[obj.byteOffset + k + 1]
    ELSE Undefined

\* an index resolved against a length: NaN and undefined give 0, a negative
\* index counts from the end, and the result stays within 0..length
Resolved(arg, length) ==
    IF arg.kind # "int" THEN 0
    ELSE IF arg.n < 0 THEN Max(0, length + arg.n)
    ELSE Min(arg.n, length)

\* C20: a view v = buf.subarray(start, end) or buf.slice(start, end) shares
\* buf's backing region: after any writes, fills, copies and swaps through
\* either object v[i] = buf[start' + i] for every i < v.length, start' being
\* the resolved start, and the two lengths stay what they were.
C20_ViewSharesBacking ==
    pc = "view" =>
        LET s == Resolved(view.start, view.buf.length)
        IN /\ view.v.buffer = view.buf.buffer
           /\ view.buf.length = orig.bufLength
           /\ view.v.length = orig.vLength
           /\ \A k \in 0..(view.v.length - 1) :
                 /\ Element(view.v, k) # Undefined
                 /\ Element(view.v, k) = Element(view.buf, s + k)

\* a write through the view of a proper sub-range has changed buf
C20_Witness ==
    /\ pc = "view"
    /\ args.ops = MaxOps
    /\ args.through = "v"
    /\ thrown = "none"
    /\ view.v.length > 0
    /\ view.v.length < view.buf.length
    /\ Resolved(view.start, view.buf.length) > 0
    /\ view.start.n < 0
    /\ Contents(buffer, view.buf) # Contents(orig.buffer, view.buf)

(***************************************************************************)
(* chained slices                                                          *)
(***************************************************************************)

ChainArgs(n) == {IntArg(k) : k \in -1..(n + 1)}

InitChain ==
    /\ pc = "idle"
    /\ \E n \in 0..ViewLen :
          /\ buffer = [k \in 1..(n + 2) |-> 10 + k]
          /\ view = [buf |-> FastBuffer(TheArrayBuffer, 1, n),
                     first |-> FastBuffer(TheArrayBuffer, 1, n),
                     chained |-> FastBuffer(TheArrayBuffer, 1, n),
                     direct |-> FastBuffer(TheArrayBuffer, 1, n)]
    /\ orig = [buffer |-> buffer, string |-> <<>>, target |-> <<>>]
    /\ target = <<>>
    /\ value = 0
    /\ accessor = [kind |-> "none"]
    /\ thrown = "none"
    /\ args = [form |-> "none"]
    /\ ret = 0
    /\ encoding = UndefinedEncoding
    /\ string = <<>>
    /\ val = <<>>
    /\ fromOffset = [kind |-> "undefined", n |-> 0, frac |-> FALSE]
    /\ dir = TRUE
    /\ byteOffset = 0
    /\ frac = FALSE
    /\ i = 0
    /\ j = 0
    /\ foundIndex = -1

\* chained = buf.slice(a, e).slice(c, d) and direct = buf.slice(a + c, a + d)
DoSliceChain ==
    /\ pc = "idle"
    /\ \E a \in ChainArgs(view.buf.length), e \in ChainArgs(view.buf.length),
          c \in ChainArgs(view.buf.length), d \in ChainArgs(view.buf.length) :
       \E first \in {slice(view.buf, a, e)} :
          /\ view' = [view EXCEPT
                         !.first = first,
                         !.chained = slice(first, c, d),
                         !.direct = slice(view.buf, IntArg(a.n + c.n),
                                          IntArg(a.n + d.n))]
          /\ args' = [form |-> "chain", a |-> a.n, e |-> e.n, c |-> c.n,
                      d |-> d.n]
    /\ pc' = "sliced"
    /\ UNCHANGED <<buffer, target, value, accessor, thrown, ret, encoding,
                   string, orig, searchVars>>

NextChain == DoSliceChain
SpecChain == InitChain /\ [][NextChain]_vars

\* C21: for 0 <= a <= e <= L and 0 <= c <= d <= e - a the chained slice
\* buf.slice(a, e).slice(c, d) is the same window of the backing region (same
\* ArrayBuffer, byte offset and length) as buf.slice(a + c, a + d).
C21_ChainedSlicesCompose ==
    (/\ pc = "sliced"
     /\ 0 <= args.a /\ args.a <= args.e /\ args.e <= view.buf.length
     /\ 0 <= args.c /\ args.c <= args.d /\ args.d <= args.e - args.a)
    => /\ view.chained.buffer = view.direct.buffer
       /\ view.chained.byteOffset = view.direct.byteOffset
       /\ view.chained.length = view.direct.length
       /\ view.chained.byteOffset = view.buf.byteOffset + args.a + args.c
       /\ view.chained.length = args.d - args.c

\* a chained slice of a proper inner range: a, c > 0 and a non-empty result
C21_Witness ==
    /\ pc = "sliced"
    /\ args.a = 1 /\ args.e = 4 /\ args.c = 1 /\ args.d = 3
    /\ view.buf.length = 4
    /\ view.chained = FastBuffer(TheArrayBuffer, 3, 2)
    /\ view.direct = view.chained

(***************************************************************************)
(* swap16, swap32, swap64                                                  *)
(***************************************************************************)

SwapLen == 17

InitSwap ==
    /\ pc = "idle"
    /\ \E n \in 0..SwapLen :
          buffer \in {[k \in 1..n |-> k], [k \in 1..n |-> 256 - k]}
    /\ orig = [buffer |-> buffer, string |-> <<>>, target |-> <<>>]
    /\ target = <<>>
    /\ value = 0
    /\ accessor = [kind |-> "none"]
    /\ thrown = "none"
    /\ view = [start |-> 0, length |-> 0]
    /\ args = [bits |-> 0]
    /\ ret = 0
    /\ encoding = UndefinedEncoding
    /\ string = <<>>
    /\ val = <<>>
    /\ fromOffset = [kind |-> "undefined", n |-> 0, frac |-> FALSE]
    /\ dir = TRUE
    /\ byteOffset = 0
    /\ frac = FALSE
    /\ i = 0
    /\ j = 0
    /\ foundIndex = -1

swapBits(b, bits) ==
    CASE bits = 16 -> swap16(b)
      [] bits = 32 -> swap32(b)
      [] bits = 64 -> swap64(b)

\* buffer.swap16(), buffer.swap32() or buffer.swap64()
DoSwap ==
    /\ pc = "idle"
    /\ \E bits \in {16, 32, 64} :
       \E r \in {swapBits(buffer, bits)} :
          /\ buffer' = r.buf
          /\ thrown' = r.thrown
          /\ args' = [bits |-> bits]
    /\ pc' = "swapped"
    /\ UNCHANGED <<target, value, accessor, view, ret, encoding, string, orig,
                   searchVars>>

\* the same swap once more
DoSwapAgain ==
    /\ pc = "swapped"
    /\ thrown = "none"
    /\ \E r \in {swapBits(buffer, args.bits)} :
          /\ buffer' = r.buf
          /\ thrown' = r.thrown
    /\ pc' = "swapped twice"
    /\ UNCHANGED <<target, value, accessor, view, ret, encoding, string, orig,
                   args, searchVars>>

NextSwap == DoSwap \/ DoSwapAgain
SpecSwap == InitSwap /\ [][NextSwap]_vars

\* b with the bytes of every consecutive group of g bytes in reverse order
GroupsReversed(b, g) ==
    [k \in 1..Len(b) |->
        LET first == ((k - 1) \div g) * g + 1
        IN b[first + (g - 1) - (k - first)]]

\* C22: swap16, swap32 and swap64 reverse the bytes of every 2-, 4- or 8-byte
\* group in place when the length is a multiple of the group size, so that a
\* second swap restores the bytes; otherwise they raise InvalidBufferSize and
\* leave the buffer as it was.
C22_SwapReversesGroups ==
    LET g == args.bits \div 8
    IN /\ (pc = "swapped" /\ Len(orig.buffer) % g = 0) =>
              /\ thrown = "none"
              /\ buffer = GroupsReversed(orig.buffer, g)
       /\ (pc = "swapped" /\ Len(orig.buffer) % g # 0) =>
              /\ thrown = "ERR_INVALID_BUFFER_SIZE"
              /\ buffer = orig.buffer
       /\ pc = "swapped twice" =>
              /\ thrown = "none"
              /\ buffer = orig.buffer

\* two groups of eight bytes reversed by swap64
C22_Witness ==
    /\ pc = "swapped"
    /\ args.bits = 64
    /\ orig.buffer = [k \in 1..16 |-> k]
    /\ buffer = <<8, 7, 6, 5, 4, 3, 2, 1, 16, 15, 14, 13, 12, 11, 10, 9>>

(***************************************************************************)
(* encoding names as the operations that take one look them up             *)
(***************************************************************************)

\* Buffer.isEncoding(name) for a string name
isEncoding(name) == name # "" /\ normalizeEncoding(name) # "undefined"

\* Buffer.from(string, name) for a non-empty string name: [buf, thrown]
fromStringNamed(str, name) ==
    IF getEncodingOps(name) = "undefined"
    THEN [buf |-> <<>>, thrown |-> "ERR_UNKNOWN_ENCODING"]
    ELSE [buf |-> fromString(str, name), thrown |-> "none"]

\* buf.write(string, 0, buf.length, name) for a non-empty name:
\* [buf, ret, thrown]
writeNamed(buf, str, name) ==
    IF getEncodingOps(name) = "undefined"
    THEN [buf |-> buf, ret |-> Undefined, thrown |-> "ERR_UNKNOWN_ENCODING"]
    ELSE LET w == {write(buf, str, 0, Len(buf), name)}
         IN CHOOSE r \in {[buf |-> x.buf, ret |-> x.ret, thrown |-> "none"] :
                             x \in w} : TRUE

\* buf.toString(name): [str, thrown]; an empty buffer returns '' before the
\* name is looked at
toStringNamed(buf, name) ==
    IF Len(buf) <= 0 THEN [str |-> <<>>, thrown |-> "none"]
    ELSE IF getEncodingOps(name) = "undefined"
    THEN [str |-> <<>>, thrown |-> "ERR_UNKNOWN_ENCODING"]
    ELSE [str |-> toString(buf, name), thrown |-> "none"]

\* Buffer.byteLength(string, name) for a non-empty name
byteLength(str, name) ==
    IF Len(str) = 0 THEN 0
    ELSE IF getEncodingOps(name) # "undefined"
    THEN opsByteLength(getEncodingOps(name), str)
    ELSE byteLengthUtf8(str)

\* what bidirectionalIndexOf hands to indexOfBuffer for a string needle and
\* an encoding name: the needle's bytes and ops.encodingVal, or the error
searchArgsNamed(str, name) ==
    IF getEncodingOps(name) = "undefined"
    THEN [val |-> <<>>, encodingVal |-> Undefined,
          thrown |-> "ERR_UNKNOWN_ENCODING"]
    ELSE [val |-> fromString(str, name),
          encodingVal |-> encodingsMap(getEncodingOps(name)),
          thrown |-> "none"]

EncodingNames ==
    {"utf8", "utf-8", "ucs2", "ucs-2", "utf16le", "utf-16le", "latin1",
     "binary", "ascii", "base64", "base64url", "hex",
     "HEX", "UTF8", "Utf-8", "Latin1", "UCS2", "BASE64", "Binary",
     "nope", "utf9"}

\* '6a', U+00E9 'a', and the empty string
NameStrings == {<<54, 97>>, <<233, 97>>, <<>>}

NameBuffers == {<<>>, <<54, 97, 233, 128>>}

InitNames ==
    /\ pc = "idle"
    /\ encoding \in EncodingNames
    /\ string \in NameStrings
    /\ buffer \in NameBuffers
    /\ orig = [buffer |-> buffer, string |-> string, target |-> <<>>]
    /\ target = <<>>
    /\ value = 0
    /\ accessor = [kind |-> "none"]
    /\ thrown = "none"
    /\ view = [start |-> 0, length |-> 0]
    /\ args = [form |-> "none"]
    /\ ret = 0
    /\ val = <<>>
    /\ fromOffset = [kind |-> "undefined", n |-> 0, frac |-> FALSE]
    /\ dir = TRUE
    /\ byteOffset = 0
    /\ frac = FALSE
    /\ i = 0
    /\ j = 0
    /\ foundIndex = -1

NameFrame ==
    UNCHANGED <<target, value, accessor, view, args, encoding, orig,
                fromOffset, dir, byteOffset, frac, i, j, foundIndex>>

\* buffer = Buffer.from(string, encoding)
DoFromNamed ==
    /\ pc = "idle"
    /\ \E r \in {fromStringNamed(string, encoding)} :
          /\ buffer' = r.buf
          /\ thrown' = r.thrown
    /\ pc' = "from"
    /\ UNCHANGED <<string, ret, val>>
    /\ NameFrame

\* ret = buffer.write(string, 0, buffer.length, encoding)
DoWriteNamed ==
    /\ pc = "idle"
    /\ \E r \in {writeNamed(buffer, string, encoding)} :
          /\ buffer' = r.buf
          /\ ret' = r.ret
          /\ thrown' = r.thrown
    /\ pc' = "write"
    /\ UNCHANGED <<string, val>>
    /\ NameFrame

\* string = buffer.toString(encoding)
DoToStringNamed ==
    /\ pc = "idle"
    /\ \E r \in {toStringNamed(buffer, encoding)} :
          /\ string' = r.str
          /\ thrown' = r.thrown
    /\ pc' = "toString"
    /\ UNCHANGED <<buffer, ret, val>>
    /\ NameFrame

\* ret = Buffer.byteLength(string, encoding)
DoByteLengthNamed ==
    /\ pc = "idle"
    /\ ret' = byteLength(string, encoding)
    /\ pc' = "byteLength"
    /\ UNCHANGED <<buffer, string, thrown, val>>
    /\ NameFrame

\* ret = Buffer.isEncoding(encoding), 1 for true and 0 for false
DoIsEncoding ==
    /\ pc = "idle"
    /\ ret' = IF isEncoding(encoding) THEN 1 ELSE 0
    /\ pc' = "isEncoding"
    /\ UNCHANGED <<buffer, string, thrown, val>>
    /\ NameFrame

\* buffer.indexOf(string, 0, encoding) up to the call of indexOfBuffer: val is
\* the needle's bytes and ret the encodingVal handed over
DoSearchNamed ==
    /\ pc = "idle"
    /\ \E r \in {searchArgsNamed(string, encoding)} :
          /\ val' = r.val
          /\ ret' = r.encodingVal
          /\ thrown' = r.thrown
    /\ pc' = "search"
    /\ UNCHANGED <<buffer, string>>
    /\ NameFrame

NextNames ==
    \/ DoFromNamed
    \/ DoWriteNamed
    \/ DoToStringNamed
    \/ DoByteLengthNamed
    \/ DoIsEncoding
    \/ DoSearchNamed

SpecNames == InitNames /\ [][NextNames]_vars

\* the recognized names and aliases, and the codec each selects
CodecOf(name) ==
    CASE name \in {"utf8", "utf-8"} -> "utf8"
      [] name \in {"ucs2", "ucs-2", "utf16le", "utf-16le"} -> "utf16le"
      [] name \in {"latin1", "binary"} -> "latin1"
      [] name \in {"ascii", "base64", "base64url", "hex"} -> name
      [] OTHER -> "undefined"

\* the name is recognized once letter case is ignored
KnownName == CodecOf(toLowerCase(encoding)) # "undefined"

\* C23: every operation that takes an encoding name treats a name that
\* differs only in letter case from a recognized name or alias as that name,
\* raises UnknownEncoding only for names that match no encoding, and agrees
\* with the others on which names are known.
C23_EncodingNamesCaseInsensitive ==
    LET lower == toLowerCase(encoding)
    IN /\ pc = "isEncoding" => (ret = 1 <=> KnownName)
       /\ (pc \in {"from", "write", "search"} /\ ~KnownName) =>
              thrown = "ERR_UNKNOWN_ENCODING"
       /\ (pc = "from" /\ KnownName) =>
              /\ thrown = "none"
              /\ buffer = fromString(orig.string, lower)
       /\ (pc = "write" /\ KnownName) =>
              /\ thrown = "none"
              /\ buffer = write(orig.buffer, string, 0, Len(orig.buffer),
                                lower).buf
       /\ (pc = "toString" /\ KnownName) =>
              /\ thrown = "none"
              /\ string = toString(buffer, lower)
       /\ (pc = "search" /\ KnownName) =>
              /\ thrown = "none"
              /\ val = fromString(string, lower)
              /\ ret = encodingsMap(CodecOf(lower))
       /\ (pc = "byteLength" /\ KnownName) =>
              ret = byteLength(string, lower)

(***************************************************************************)
(* byteLength against the length of the wrapped string                     *)
(***************************************************************************)

\* 'a', 'z' (no hex digit), '!' (no base64 symbol), '=', a high and a low
\* surrogate
MeasureUnits == {97, 122, 33, 61, 55296, 56320}

MeasureEncodings ==
    {"utf8", "utf16le", "latin1", "ascii", "base64", "base64url", "hex"}

InitMeasure ==
    /\ pc = "idle"
    /\ encoding \in MeasureEncodings
    /\ string \in SeqsUpTo(MeasureUnits, MaxStrLen)
    /\ buffer = <<>>
    /\ orig = [buffer |-> buffer, string |-> string, target |-> <<>>]
    /\ target = <<>>
    /\ value = 0
    /\ accessor = [kind |-> "none"]
    /\ thrown = "none"
    /\ view = [start |-> 0, length |-> 0]
    /\ args = [form |-> "none"]
    /\ ret = 0
    /\ val = <<>>
    /\ fromOffset = [kind |-> "undefined", n |-> 0, frac |-> FALSE]
    /\ dir = TRUE
    /\ byteOffset = 0
    /\ frac = FALSE
    /\ i = 0
    /\ j = 0
    /\ foundIndex = -1

\* ret = Buffer.byteLength(string, encoding)
DoMeasure ==
    /\ pc = "idle"
    /\ ret' = byteLength(string, encoding)
    /\ pc' = "measured"
    /\ UNCHANGED <<buffer, string, thrown, val>>
    /\ NameFrame

\* buffer = Buffer.from(string, encoding)
DoWrap ==
    /\ pc = "measured"
    /\ \E r \in {fromStringNamed(string, encoding)} :
          /\ buffer' = r.buf
          /\ thrown' = r.thrown
    /\ pc' = "wrapped"
    /\ UNCHANGED <<string, ret, val>>
    /\ NameFrame

NextMeasure == DoMeasure \/ DoWrap
SpecMeasure == InitMeasure /\ [][NextMeasure]_vars

\* C24: Buffer.byteLength(s, encoding) is the number of bytes of
\* Buffer.from(s, encoding), for every string and every encoding.
C24_ByteLengthIsWrappedLength ==
    pc = "wrapped" => (thrown = "none" /\ ret = Len(buffer))

(***************************************************************************)
(* the search with a 2-byte-unit encoding                                  *)
(***************************************************************************)

\* buffer.indexOf(val, fromOffset, 'utf16le') and lastIndexOf, val a Buffer
InitSearch16 ==
    /\ NoAccess
    /\ pc = "idle"
    /\ buffer \in SeqsUpTo(SearchBytes, MaxBufLen)
    /\ val \in SeqsUpTo(SearchBytes, MaxValLen)
    /\ fromOffset \in OffsetInputs
    /\ dir \in BOOLEAN
    /\ byteOffset = 0
    /\ frac = FALSE
    /\ i = 0
    /\ j = 0
    /\ foundIndex = -1
    /\ ret = -1
    /\ encoding = "utf16le"
    /\ string = <<>>
    /\ orig = [buffer |-> buffer, string |-> <<>>]
    /\ args = [offset |-> 0, length |-> 0]

SpecSearch16 == InitSearch16 /\ [][NextSearch]_vars

\* the 2-byte units of v equal those of buf from byte index k on
UnitsOccur(buf, v, k) ==
    /\ k >= 0
    /\ \A u \in 0..((Len(v) \div 2) - 1) :
          /\ k + 2 * u + 2 <= Len(buf)
          /\ buf[k + 2 * u + 1] = v[2 * u + 1]
          /\ buf[k + 2 * u + 2] = v[2 * u + 2]

\* C25: with the encoding utf16le a needle of fewer than 2 bytes never
\* matches, and every reported match starts at an even byte offset where all
\* 2-byte units of the needle equal the buffer's.
C25_Utf16SearchByUnits ==
    (pc = "done" /\ encoding = "utf16le") =>
        /\ Len(val) < 2 => ret = -1
        /\ ret # -1 => (ret % 2 = 0 /\ UnitsOccur(buffer, val, ret))

-----------------------------------------------------------------------------
(* utf8Write under a byte budget *)

\* code units of one-, two- and three-byte characters and the two halves of
\* a four-byte one
Utf8WriteUnits == {97, 233, 8364, 55357, 56832}
Utf8Dest == [k \in 1..Utf8DestLen |-> 238]

InitUtf8Write ==
    InitCodec({"utf8"}, {Utf8Dest}, SeqsUpTo(Utf8WriteUnits, MaxStrLen))

\* buf.utf8Write(string, offset, length) with 0 <= offset <= buf.length and
\* length >= 0, the arguments that pass the three range tests
DoUtf8Write ==
    /\ pc = "idle"
    /\ \E offset \in 0..Len(buffer), length \in 0..(Len(buffer) + 1) :
          \E w \in {utf8Write(buffer, string, offset, length)} :
             /\ buffer' = w.buf
             /\ ret' = w.ret
             /\ args' = [offset |-> offset, length |-> length]
    /\ pc' = "written"
    /\ UNCHANGED <<string, encoding, orig, searchVars, accessVars>>

NextUtf8Write == DoUtf8Write
SpecUtf8Write == InitUtf8Write /\ [][NextUtf8Write]_vars

\* B from element k on is a concatenation of well-formed UTF-8 sequences
RECURSIVE CompleteSequences(_, _)
CompleteSequences(B, k) ==
    \/ k > Len(B)
    \/ /\ WellFormedLen(B, k) > 0
       /\ CompleteSequences(B, k + WellFormedLen(B, k))

\* C26: utf8Write(string, offset, length) returns n <= min(length,
\* buffer.length - offset), changes no byte outside [offset, offset + n),
\* and the n bytes written are a concatenation of complete UTF-8 sequences.
C26_Utf8WriteHonoursBudget ==
    (pc = "written" /\ encoding = "utf8")
        => /\ ret <= Min(args.length, Len(orig.buffer) - args.offset)
           /\ Len(buffer) = Len(orig.buffer)
           /\ \A k \in 1..Len(buffer) :
                 (k <= args.offset \/ k > args.offset + ret)
                     => buffer[k] = orig.buffer[k]
           /\ CompleteSequences(SubSeq(buffer, args.offset + 1,
                                       args.offset + ret), 1)

\* a four-byte sequence did not fit in the budget and was left out whole,
\* after a three-byte one that did
C26_Witness ==
    /\ pc = "written"
    /\ encoding = "utf8"
    /\ string = <<8364, 55357, 56832>>
    /\ args.offset = 1
    /\ args.length = 5
    /\ ret = 3
    /\ SubSeq(buffer, 2, 4) = <<226, 130, 172>>
    /\ buffer[5] = 238

-----------------------------------------------------------------------------
(* Integer reads as positional values *)

\* the buffers of AccessBuffers, and two whose bytes sit on both sides of
\* the sign bit
ReadBuffers ==
    AccessBuffers \cup {<<0, 127, 128, 255, 1, 128, 0, 255, 127>>,
                        <<255, 255, 255, 255, 255, 255, 127, 0, 128>>}

IntegerAccessors == {acc \in Accessors : acc.kind \in {"UInt", "Int"}}

\* 0x01020304
ReversalValue == NumOfInt(16909060)

InitReads ==
    /\ pc = "idle"
    /\ buffer \in ReadBuffers
    /\ accessor \in IntegerAccessors
    /\ value \in ValueInputs(accessor) \cup {ReversalValue}
    /\ thrown = "none"
    /\ target = <<>>
    /\ view = [start |-> 0, length |-> 0]
    /\ orig = [buffer |-> buffer, string |-> <<>>]
    /\ args = [offset |-> [n |-> 0, frac |-> FALSE]]
    /\ ret = 0
    /\ encoding = "utf8"
    /\ string = <<>>
    /\ val = <<>>
    /\ fromOffset = [kind |-> "undefined", n |-> 0, frac |-> FALSE]
    /\ dir = TRUE
    /\ byteOffset = 0
    /\ frac = FALSE
    /\ i = 0
    /\ j = 0
    /\ foundIndex = -1

\* buffer.read<Accessor>(offset) with the other byte order, at the offset
\* just written
DoReadOpposite ==
    /\ pc = "wrote"
    /\ thrown = "none"
    /\ \E r \in {ReadCall(buffer, args.offset,
                          [accessor EXCEPT !.le = ~accessor.le])} :
          /\ thrown' = r.thrown
          /\ ret' = r.value
    /\ pc' = "readopposite"
    /\ UNCHANGED <<buffer, value, accessor, target, view, args, encoding,
                   string, orig, searchVars>>

NextReads ==
    \/ DoWriteNumber
    \/ DoReadNumber
    \/ DoReadOpposite

SpecReads == InitReads /\ [][NextReads]_vars

\* the byte of weight 256^k among the w bytes at offset o of buf
WeightedByte(buf, o, w, le, k) ==
    IF le THEN buf[o + 1 + k] ELSE buf[o + w - k]

\* sum over k < w of the byte of weight 256^k times 256^k, less 2^(8w) when
\* signed and the most significant bit is set, written digit by digit
PositionalValue(buf, o, w, le, signed) ==
    LET negative == signed /\ WeightedByte(buf, o, w, le, w - 1) >= 128
    IN [t |-> IF negative THEN -1 ELSE 0,
        d |-> [k \in 1..8 |-> IF k <= w THEN WeightedByte(buf, o, w, le, k - 1)
                              ELSE IF negative THEN 255 ELSE 0]]

\* v with its w low bytes in the opposite order
ByteReversed(v, w) ==
    [t |-> 0, d |-> [k \in 1..8 |-> IF k <= w THEN v.d[w + 1 - k] ELSE 0]]

\* C27: for every width 1..6, both byte orders and every in-bounds offset an
\* integer read returns the positional value of the bytes (less 2^(8w) for a
\* signed read with the top bit set); the bytes of an unsigned big-endian
\* write are most significant first, and reading them with the other byte
\* order returns the byte-reversed value.
C27_ReadsArePositional ==
    /\ (pc = "read" /\ thrown = "none")
          => ret = PositionalValue(buffer, args.offset.n, accessor.w,
                                   accessor.le, IsSigned(accessor))
    /\ (pc = "readopposite" /\ accessor.kind = "UInt")
          => /\ thrown = "none"
             /\ \A k \in 1..accessor.w :
                   WeightedByte(buffer, args.offset.n, accessor.w,
                                accessor.le, k - 1) = value.d[k]
             /\ ret = ByteReversed(value, accessor.w)

\* 0x01020304 written by writeUInt32BE is 01 02 03 04 and reads back
\* through readUInt32LE as 0x04030201
C27_Witness ==
    /\ pc = "readopposite"
    /\ accessor = [kind |-> "UInt", w |-> 4, le |-> FALSE, bigEndian |-> FALSE]
    /\ value = ReversalValue
    /\ args.offset.n = 2
    /\ SubSeq(buffer, 3, 6) = <<1, 2, 3, 4>>
    /\ ret = NumOfInt(67305985)

\* readUIntLE(3, 4) of FF 01 80 00 FF is 0xFF008001, above 2^31
C27_WitnessAbove31 ==
    /\ pc = "read"
    /\ thrown = "none"
    /\ accessor = [kind |-> "UInt", w |-> 4, le |-> TRUE, bigEndian |-> FALSE]
    /\ args.offset.n = 4
    /\ SubSeq(buffer, 5, 8) = <<1, 128, 0, 255>>
    /\ ret.t = 0
    /\ ret.d = <<1, 128, 0, 255, 0, 0, 0, 0>>

-----------------------------------------------------------------------------
(* subarray: how each bound is resolved *)

\* integers and halves on both sides of 0, of -length and of length, NaN
\* and an omitted argument
BoundArgs ==
    {IntArg(n) : n \in (-ViewLen - 1)..(ViewLen + 1)}
    \cup {HalfArg(m) : m \in {k \in (-2 * ViewLen - 3)..(2 * ViewLen + 3) :
                                 k % 2 = 1}}
    \cup {NaNArg, UndefinedArg}

InitBounds == InitView

\* p = buf.subarray(a, b): the parent view of the next step
DoParent ==
    /\ pc = "idle"
    /\ \E a \in 0..ViewLen, b \in 0..ViewLen :
          view' = [view EXCEPT !.v = subarray(view.buf, IntArg(a), IntArg(b))]
    /\ pc' = "parent"
    /\ UNCHANGED <<buffer, orig, target, value, accessor, thrown, ret, args,
                   encoding, string, searchVars>>

\* v = p.subarray(start, end)
DoSubarrayBounds ==
    /\ pc = "parent"
    /\ \E start \in BoundArgs, end \in BoundArgs :
          \E v \in {subarray(view.v, start, end)} :
             /\ view' = [buf |-> view.v, v |-> v, start |-> start]
             /\ args' = [start |-> start, end |-> end]
    /\ pc' = "view"
    /\ UNCHANGED <<buffer, orig, target, value, accessor, thrown, ret,
                   encoding, string, searchVars>>

NextBounds ==
    \/ DoParent
    \/ DoSubarrayBounds

SpecBounds == InitBounds /\ [][NextBounds]_vars

\* the integer nearest to m / 2 that is no further from zero
TowardZero(m) ==
    CHOOSE t \in -(ViewLen + 2)..(ViewLen + 2) :
        /\ (m >= 0) => (2 * t <= m /\ m < 2 * t + 2)
        /\ (m < 0) => (2 * t >= m /\ m > 2 * t - 2)

\* the bound b resolved against length: truncated toward zero, then
\* max(0, length + b) when negative and length when >= length; NaN is 0
ResolvedBound(arg, length) ==
    IF arg.kind = "nan" \/ arg.kind = "undefined" THEN 0
    ELSE LET b == IF arg.kind = "half" THEN TowardZero(arg.n) ELSE arg.n
         IN IF b < 0 THEN Max(0, length + b)
            ELSE IF b >= length THEN length
            ELSE b

\* C28: subarray(start, end) resolves each bound on its own (truncation
\* toward zero, negative b to max(0, length + b), b >= length to length,
\* NaN to 0, an omitted end to length); the new view covers
\* [start', max(start', end')), lies inside the parent view and has length
\* max(0, end' - start').
C28_SubarrayResolvesBounds ==
    pc = "view" =>
        LET parent == view.buf
            s == ResolvedBound(args.start, parent.length)
            e == IF args.end.kind = "undefined" THEN parent.length
                 ELSE ResolvedBound(args.end, parent.length)
        IN /\ view.v.buffer = parent.buffer
           /\ view.v.byteOffset = parent.byteOffset + s
           /\ view.v.length = Max(0, e - s)
           /\ view.v.byteOffset >= parent.byteOffset
           /\ view.v.byteOffset + view.v.length
                 <= parent.byteOffset + parent.length

\* subarray(-2.5, 3.5) of a view of three bytes: -2.5 truncates to -2
C28_Witness ==
    /\ pc = "view"
    /\ view.buf.length = 3
    /\ view.buf.byteOffset = 2
    /\ args.start = HalfArg(-5)
    /\ args.end = HalfArg(7)
    /\ view.v.byteOffset = 3
    /\ view.v.length = 2

-----------------------------------------------------------------------------
(* write under a byte budget, for every encoding *)

\* 'A', 'a', '6' and '1' are base64 symbols and hexadecimal digits; the
\* euro sign takes three bytes as utf8 and is above 0xFF
BudgetUnits == {65, 97, 54, 49, 8364}
BudgetEncodings ==
    {"utf8", "utf16le", "latin1", "ascii", "base64", "base64url", "hex"}

InitBudget ==
    InitCodec(BudgetEncodings, {DestBuf}, SeqsUpTo(BudgetUnits, MaxStrLen))

SpecBudget == InitBudget /\ [][NextWrite]_vars

\* C29: for every encoding, buf.write(string, offset, length, encoding)
\* returns n <= min(length, buf.length - offset) and changes no byte of the
\* buffer outside [offset, offset + n).
C29_WriteHonoursBudget ==
    pc = "written"
        => /\ ret <= Min(args.length, Len(orig.buffer) - args.offset)
           /\ Len(buffer) = Len(orig.buffer)
           /\ \A k \in 1..Len(buffer) :
                 (k <= args.offset \/ k > args.offset + ret)
                     => buffer[k] = orig.buffer[k]

-----------------------------------------------------------------------------
(* The static comparators of the two editions of the source *)

\* the loop of _compare of the first edition, from index k
RECURSIVE _compareFirstEditionLoop(_, _, _)
_compareFirstEditionLoop(buf1, buf2, k) ==
    IF ~(k < Len(buf1)) THEN 0
    ELSE LET c1 == buf1[k + 1]
             c2 == buf2[k + 1]
         IN IF c1 < c2 THEN -1
            ELSE IF c1 > c2 THEN 1
            ELSE _compareFirstEditionLoop(buf1, buf2, k + 1)

\* _compare of the first edition: the lengths are compared first
_compareFirstEdition(buf1, buf2) ==
    IF Len(buf1) < Len(buf2) THEN -1
    ELSE IF Len(buf1) > Len(buf2) THEN 1
    ELSE _compareFirstEditionLoop(buf1, buf2, 0)

\* Buffer.compare(buf1, buf2) of the first edition; same is buf1 === buf2
compareStaticFirstEdition(buf1, buf2, same) ==
    IF same THEN 0 ELSE _compareFirstEdition(buf1, buf2)

InitEditions == InitCompare

\* ret = Buffer.compare(buffer, target) of the first edition, or
\* Buffer.compare(buffer, buffer)
DoStaticCompareFirstEdition ==
    /\ pc = "idle"
    /\ \E same \in BOOLEAN :
          /\ ret' = compareStaticFirstEdition(
                        buffer, IF same THEN buffer ELSE target, same)
          /\ args' = [form |-> IF same THEN "self" ELSE "static"]
    /\ pc' = "first"
    /\ UNCHANGED <<buffer, target, value, accessor, thrown, view, encoding,
                   string, orig, searchVars>>

\* value = Buffer.compare of the second edition on the same operands
DoStaticCompareSecondEdition ==
    /\ pc = "first"
    /\ value' = compareStatic(buffer,
                              IF args.form = "self" THEN buffer ELSE target,
                              args.form = "self")
    /\ pc' = "both"
    /\ UNCHANGED <<buffer, target, ret, args, accessor, thrown, view,
                   encoding, string, orig, searchVars>>

NextEditions ==
    \/ DoStaticCompareFirstEdition
    \/ DoStaticCompareSecondEdition

SpecEditions == InitEditions /\ [][NextEditions]_vars

\* C30: for every pair of byte sequences x and y, of equal or of different
\* lengths, Buffer.compare(x, y) of the first edition returns what
\* Buffer.compare(x, y) of the second edition returns.
C30_EditionsAgree ==
    pc = "both" => ret = value

====
